---- MODULE Spec2Model ----
(***************************************************************************)
(* NSFH replication pipeline: the per-wave table builders                  *)
(* (replicate_nsfh_wave1/2/3.py), the stacker and aggregator               *)
(* (replicate_nsfh_stacked.py) and the gap interval of nsfh_plots.py.      *)
(*                                                                         *)
(* A table is [columns, rows]; a row is a record whose fields are the      *)
(* column names and whose values are spreadsheet cells.  A cell is a       *)
(* string: a numeral ("0", "1", "2"), a label ("Male", "1960-69") or NA,   *)
(* the missing value (NaN / pd.NA / an empty spreadsheet cell).            *)
(* The labels "<=1939", ">=2000" and "1960-69" stand for the source's      *)
(* labels with the signs U+2264, U+2265 and the en dash.                   *)
(*                                                                         *)
(* A mean is kept exact as [s, n]: the sum and the number of the non-null  *)
(* values averaged; n = 0 is the null mean (NaN).  A difference of two     *)
(* means is kept as [num, den], den = 0 being null.                        *)
(***************************************************************************)
EXTENDS Integers, Sequences, FiniteSets, TLC

VARIABLES
    script,       \* the program that runs: "wave1", "wave2", "wave3", "stacked"
    pc,           \* its position
    n_threshold,  \* --n_threshold / --min_n / MIN_N / thresh
    files,        \* stacked: the analytic sheets of the input files, in the order of inputs
    dfs,          \* stacked: the list dfs of read_analytic results
    stacked,      \* stacked: the result of stack_align(dfs)
    pooled,       \* stacked: compute_tables(stacked, by_wave=False)
    bywave,       \* stacked: compute_tables(stacked, by_wave=True)
    gdf,          \* nsfh_plots.plot_gap_by_wave: the frame gdf
    analytic,     \* wave scripts: the analytic table
    tables,       \* wave scripts: primary_all, primary_present, ever_partnered_gap
    warned,       \* stacked: the waves of the WARNING lines printed, in order
    written,      \* the output workbooks written so far
    error,        \* the exception that ended the run before its tables, if any
    raw           \* wave scripts: the raw extract as read

vars == <<script, pc, n_threshold, files, dfs, stacked, pooled, bywave, gdf, analytic, tables,
          warned, written, error, raw>>

\* ------------------------------------------------------------------ bounds

\* rows of a dataset of the wide and the content families
MaxRows == 3
\* rows of a dataset of the gap family (two groups of two sexes)
MaxGapRows == 4
\* thresholds 1..MaxThreshold stand for the source's default of 200
MaxThreshold == 2
\* birth years 1965 - YearSpan .. 1965 + YearSpan given to the binners
YearSpan == 30
\* labels in a list given to sorted(..., key=cohort_sort_key)
MaxLabels == 2

\* ------------------------------------------------------------------ cells

NA == "NA"

\* The numerals that occur as cells: codes, counts, ages and years.
NumRange == (0..99) \cup (1880..2010)
Numerals == [n \in NumRange |-> ToString(n)]
NumeralSet == {Numerals[n] : n \in NumRange}

\* pd.to_numeric(..., errors="coerce") of a cell
IsNum(c) == c \in NumeralSet
Val(c) == CASE c = "0" -> 0 [] c = "1" -> 1 [] c = "2" -> 2
            [] OTHER -> CHOOSE n \in NumRange : Numerals[n] = c
to_numeric(c) == IF IsNum(c) THEN c ELSE NA

\* Code point order of the strings that occur as group keys: '-' < digits <
\* 'F' < 'M' < 'n' < 'w' < the en dash < U+2264 < U+2265.  Sorting puts
\* missing values last.
LexOrder == <<"1", "1940-1944", "1940-49", "1945-1949", "1950-1954", "1950-59", "1952-56",
              "1955-1959", "1957-60", "1960-1964", "1960-69", "1961-64", "1965-1969",
              "1965-68", "1969-72", "1970-1974", "1970-79", "1975-1979", "1980-1984",
              "1980-89", "1985-1989", "1990-1994", "1990-99", "1995-1999", "2", "Female",
              "Male", "nan", "wave1", "wave2", "wave3", "<=1939", ">=2000">>
Rank(c) == IF c = NA THEN Len(LexOrder) + 1
           ELSE CHOOSE i \in 1..Len(LexOrder) : LexOrder[i] = c

RECURSIVE KeyLess(_, _)
KeyLess(a, b) ==
    IF a = <<>> \/ b = <<>> THEN FALSE
    ELSE \/ Rank(Head(a)) < Rank(Head(b))
         \/ Head(a) = Head(b) /\ KeyLess(Tail(a), Tail(b))

\* the keys of S in sorted order (groupby(sort=True), sort_values, pivot's index)
RECURSIVE SortKeys(_)
SortKeys(S) ==
    IF S = {} THEN <<>>
    ELSE LET m == CHOOSE x \in S : \A y \in S \ {x} : KeyLess(x, y)
         IN  <<m>> \o SortKeys(S \ {m})

\* ------------------------------------------------------------------ sequences

Range(s) == {s[i] : i \in DOMAIN s}

\* the rows of s that pass Test, in order (boolean indexing)
SelectRows(s, Test(_)) ==
    LET F[i \in 0..Len(s)] ==
            IF i = 0 THEN <<>>
            ELSE IF Test(s[i]) THEN Append(F[i - 1], s[i]) ELSE F[i - 1]
    IN  F[Len(s)]

RECURSIVE Concat(_)
Concat(ss) == IF ss = <<>> THEN <<>> ELSE Head(ss) \o Concat(Tail(ss))

SumOver(s, F(_)) ==
    LET G[i \in 0..Len(s)] == IF i = 0 THEN 0 ELSE G[i - 1] + F(s[i])
    IN  G[Len(s)]

\* Series.mean() of column c over the rows d: nulls are skipped
Mean(d, c) ==
    LET known == SelectRows(d, LAMBDA r : IsNum(to_numeric(r[c])))
    IN  [s |-> SumOver(known, LAMBDA r : Val(r[c])), n |-> Len(known)]

NullMean == [s |-> 0, n |-> 0]

\* Series - Series on two means: null when either is null
Minus(pf, pm) ==
    IF pf.n = 0 \/ pm.n = 0 THEN [num |-> 0, den |-> 0]
    ELSE [num |-> pf.s * pm.n - pm.s * pf.n, den |-> pf.n * pm.n]

\* ------------------------------------------------------------------ tables

Table(cols, rows) == [columns |-> cols, rows |-> rows]

\* df[c] = v on one row
SetColumn(row, c, v) == [k \in DOMAIN row \cup {c} |-> IF k = c THEN v ELSE row[k]]

\* df.rename(columns={old: new}) on one row
RenameColumn(row, old, new) ==
    [k \in (DOMAIN row \ {old}) \cup {new} |-> IF k = new THEN row[old] ELSE row[k]]

MapRows(s, F(_)) == [i \in DOMAIN s |-> F(s[i])]

\* ------------------------------------------------------------------ replicate_nsfh_stacked.py

\* Series.map({1: "Male", 2: "Female"})
sex_label_from_code(c) ==
    IF to_numeric(c) = "1" THEN "Male" ELSE IF to_numeric(c) = "2" THEN "Female" ELSE NA

\* (pd.to_numeric(age, errors="coerce") <= 35).astype("Int64"): a null age compares False
age_le_35_from_age(c) ==
    IF IsNum(to_numeric(c)) /\ Val(to_numeric(c)) <= 35 THEN "1" ELSE "0"

read_analytic(df, wave) ==
    LET c1 == df.columns \cup {"wave"}
        r1 == MapRows(df.rows, LAMBDA r : SetColumn(r, "wave", wave))
        ren_p == "primary_cohort" \in c1 /\ "cohort_primary" \notin c1
        ren_m == "macro_cohort" \in c1 /\ "cohort_macro" \notin c1
        c2 == IF ren_p THEN (c1 \ {"primary_cohort"}) \cup {"cohort_primary"} ELSE c1
        r2 == IF ren_p
              THEN MapRows(r1, LAMBDA r : RenameColumn(r, "primary_cohort", "cohort_primary"))
              ELSE r1
        c3 == IF ren_m THEN (c2 \ {"macro_cohort"}) \cup {"cohort_macro"} ELSE c2
        r3 == IF ren_m
              THEN MapRows(r2, LAMBDA r : RenameColumn(r, "macro_cohort", "cohort_macro"))
              ELSE r2
        add_s == "sex_label" \notin c3 /\ "sex" \in c3
        c4 == IF add_s THEN c3 \cup {"sex_label"} ELSE c3
        r4 == IF add_s
              THEN MapRows(r3, LAMBDA r : SetColumn(r, "sex_label", sex_label_from_code(r["sex"])))
              ELSE r3
        add_a == "age_le_35" \notin c4 /\ "age" \in c4
        c5 == IF add_a THEN c4 \cup {"age_le_35"} ELSE c4
        r5 == IF add_a
              THEN MapRows(r4, LAMBDA r : SetColumn(r, "age_le_35", age_le_35_from_age(r["age"])))
              ELSE r4
    IN  Table(c5, r5)

\* cols of stack_align: the union of the columns of the tables
UnionColumns(ds) == UNION {ds[i].columns : i \in DOMAIN ds}

\* FillMissing filling with 0 in place of the missing value
FillMissingWithZero(d, cols) ==
    Table(cols,
          MapRows(d.rows, LAMBDA r : [c \in cols |-> IF c \in DOMAIN r THEN r[c] ELSE "0"]))

\* the loop of stack_align on one table: d[c] = pd.NA for every missing column
FillMissing(d, cols) ==
    Table(cols,
          MapRows(d.rows, LAMBDA r : [c \in cols |-> IF c \in DOMAIN r THEN r[c] ELSE NA]))

\* the list dfs as stack_align leaves it: the loop assigns into the caller's tables
stack_align_inputs(ds) == [i \in DOMAIN ds |-> FillMissing(ds[i], UnionColumns(ds))]

\* stack_align concatenating the tables last to first
stack_align_reversed(ds) ==
    Table(UnionColumns(ds),
          Concat([i \in DOMAIN ds |->
                     FillMissing(ds[Len(ds) + 1 - i], UnionColumns(ds)).rows]))

stack_align(ds) ==
    Table(UnionColumns(ds),
          Concat([i \in DOMAIN ds |-> FillMissing(ds[i], UnionColumns(ds)).rows]))

group_keys(by_wave) ==
    IF by_wave THEN <<"wave", "cohort_primary", "sex_label">>
    ELSE <<"cohort_primary", "sex_label">>

KeyOf(r, keys) == [i \in DOMAIN keys |-> r[keys[i]]]

MetricColumns == {"ever_partnered", "num_cohab_partners", "num_marriages", "remarried_2plus"}

\* metric_frame with the conditional metrics taken over every row of the group
metric_frame_unconditional(d) ==
    [N_age_le_35 |-> Len(d),
     p_ever_partnered |-> Mean(d, "ever_partnered"),
     mean_cohab_partners_if_partnered |-> Mean(d, "num_cohab_partners"),
     mean_marriages_if_partnered |-> Mean(d, "num_marriages"),
     p_remarried_2plus_if_partnered |-> Mean(d, "remarried_2plus")]

metric_frame(d) ==
    LET partnered == SelectRows(d, LAMBDA r : to_numeric(r["ever_partnered"]) = "1")
    IN  [N_age_le_35 |-> Len(d),
         p_ever_partnered |-> Mean(d, "ever_partnered"),
         mean_cohab_partners_if_partnered |-> Mean(partnered, "num_cohab_partners"),
         mean_marriages_if_partnered |-> Mean(partnered, "num_marriages"),
         p_remarried_2plus_if_partnered |-> Mean(partnered, "remarried_2plus")]

\* a35: the rows with age_le_35 == 1
Restrict35(rows) == SelectRows(rows, LAMBDA r : to_numeric(r["age_le_35"]) = "1")

\* the groups of groupby's default dropna=True: keys with a null are left out
GroupKeysKnown(rows, keys) ==
    {k \in {KeyOf(r, keys) : r \in Range(rows)} : \A i \in DOMAIN k : k[i] # NA}

\* the groups of groupby(keys, dropna=False): every key that occurs, nulls included
GroupKeysAll(rows, keys) == {KeyOf(r, keys) : r \in Range(rows)}

\* GroupRow with the metrics taken over every row that shares the first key
GroupRowOfFirstKey(rows, keys, k) ==
    LET m == metric_frame(SelectRows(rows, LAMBDA r : r[keys[1]] = k[1]))
    IN  [c \in Range(keys) \cup DOMAIN m |->
            IF c \in DOMAIN m THEN m[c]
            ELSE k[CHOOSE i \in DOMAIN keys : keys[i] = c]]

\* one row of groupby(...).apply(metric_frame).reset_index()
GroupRow(rows, keys, k) ==
    LET m == metric_frame(SelectRows(rows, LAMBDA r : KeyOf(r, keys) = k))
    IN  [c \in Range(keys) \cup DOMAIN m |->
            IF c \in DOMAIN m THEN m[c]
            ELSE k[CHOOSE i \in DOMAIN keys : keys[i] = c]]

PrimaryAll(a35, keys) ==
    LET ks == SortKeys(GroupKeysAll(a35, keys))
    IN  [i \in DOMAIN ks |-> GroupRow(a35, keys, ks[i])]

\* the columns and the index of sub.pivot(index="cohort_primary", columns="sex_label")
PivotColumns(sub) == {r["sex_label"] : r \in Range(sub)}
PivotIndex(sub) == {r["cohort_primary"] : r \in Range(sub)}
HasCell(sub, c, s) ==
    \E r \in Range(sub) : r["cohort_primary"] = c /\ r["sex_label"] = s
CellRow(sub, c, s) ==
    CHOOSE r \in Range(sub) : r["cohort_primary"] = c /\ r["sex_label"] = s

\* n_by.dropna().index: the cohorts with a value in every column of the pivot
DropNa(sub) == {c \in PivotIndex(sub) : \A s \in PivotColumns(sub) : HasCell(sub, c, s)}

\* n_by.get(s, 0) >= n_threshold at cohort c: a missing column is the scalar 0
GetGe(sub, s, c, t) ==
    IF s \in PivotColumns(sub)
    THEN HasCell(sub, c, s) /\ CellRow(sub, c, s)["N_age_le_35"] >= t
    ELSE 0 >= t

\* with neither column the mask is a Python bool and .loc[bool] raises KeyError
KeepRaises(sub) == "Female" \notin PivotColumns(sub) /\ "Male" \notin PivotColumns(sub)

Keep(sub, t) ==
    {c \in DropNa(sub) : GetGe(sub, "Female", c, t) /\ GetGe(sub, "Male", c, t)}

\* PresentRows filtering row by row: only the rows whose own N meets the threshold
PresentRowsBySex(sub, t) == SelectRows(sub, LAMBDA r : r["N_age_le_35"] >= t)

\* sub.loc[sub["cohort_primary"].isin(keep)]
PresentRows(sub, t) == SelectRows(sub, LAMBDA r : r["cohort_primary"] \in Keep(sub, t))

\* p_by.get("Female") - p_by.get("Male") raises TypeError when a column is missing
GapRaises(sub) == "Female" \notin PivotColumns(sub) \/ "Male" \notin PivotColumns(sub)

PivotP(sub, c, s) ==
    IF HasCell(sub, c, s) THEN CellRow(sub, c, s)["p_ever_partnered"] ELSE NullMean

\* GapRows with the operands exchanged: Male minus Female
GapRowsMaleMinusFemale(sub) ==
    LET idx == SortKeys({<<c>> : c \in PivotIndex(sub)})
    IN  [i \in DOMAIN idx |->
            [cohort_primary |-> idx[i][1],
             female_minus_male_p_ever_partnered |->
                 Minus(PivotP(sub, idx[i][1], "Male"), PivotP(sub, idx[i][1], "Female"))]]

GapRows(sub) ==
    LET idx == SortKeys({<<c>> : c \in PivotIndex(sub)})
    IN  [i \in DOMAIN idx |->
            [cohort_primary |-> idx[i][1],
             female_minus_male_p_ever_partnered |->
                 Minus(PivotP(sub, idx[i][1], "Female"), PivotP(sub, idx[i][1], "Male"))]]

WavesOf(rows) == SortKeys({<<r["wave"]>> : r \in Range(rows)})
WaveSub(rows, w) == SelectRows(rows, LAMBDA r : r["wave"] = w)

\* the result of a table builder: status "ok" with the three tables, "error"
\* when the call raised, "none" while it has not run
Tables(all, present, gap) ==
    [status |-> "ok", primary_all |-> all, primary_present |-> present,
     ever_partnered_gap |-> gap]
EmptyTables == Tables(<<>>, <<>>, <<>>)
Err == [EmptyTables EXCEPT !.status = "error"]
None == [EmptyTables EXCEPT !.status = "none"]
NoTable == [columns |-> {}, rows |-> <<>>]

\* the exception that ended a run: its type, the fields its message names as
\* missing and the columns its message lists as present
NoError == [raised |-> FALSE, type |-> "", missing |-> {}, present |-> {}]

\* The outcomes of compute_tables(analytic, n_threshold, by_wave): Err when it
\* raises, else the three tables.  With no row of age_le_35 == 1 the pooled
\* call raises at the pivot; the by-wave call raises or returns empty tables
\* according to what groupby.apply returns on an empty frame.
primary_present(primary_all, t, by_wave) ==
    IF by_wave
    THEN LET ws == WavesOf(primary_all)
         IN  Concat([i \in DOMAIN ws |-> PresentRows(WaveSub(primary_all, ws[i][1]), t)])
    ELSE PresentRows(primary_all, t)

ever_partnered_gap(present, by_wave) ==
    IF by_wave
    THEN LET pws == WavesOf(present)
         IN  Concat([i \in DOMAIN pws |->
                 MapRows(GapRows(WaveSub(present, pws[i][1])),
                         LAMBDA g : SetColumn(g, "wave", pws[i][1]))])
    ELSE GapRows(present)

\* the pivots of lines 99-123 raise: KeyError at the mask, TypeError at the gap
TablesRaise(primary_all, present, by_wave) ==
    IF by_wave
    THEN \/ \E w \in Range(WavesOf(primary_all)) : KeepRaises(WaveSub(primary_all, w[1]))
         \/ \E w \in Range(WavesOf(present)) : GapRaises(WaveSub(present, w[1]))
    ELSE KeepRaises(primary_all) \/ GapRaises(present)

TablesOf(primary_all, present, by_wave) ==
    IF TablesRaise(primary_all, present, by_wave) THEN {Err}
    ELSE {Tables(primary_all, present, ever_partnered_gap(present, by_wave))}

compute_tables(df, t, by_wave) ==
    IF ~ ({"age_le_35"} \cup Range(group_keys(by_wave)) \subseteq df.columns) THEN {Err}
    ELSE IF Restrict35(df.rows) = <<>> THEN (IF by_wave THEN {Err, EmptyTables} ELSE {Err})
    ELSE IF ~ (MetricColumns \subseteq df.columns) THEN {Err}
    ELSE TablesOf(PrimaryAll(Restrict35(df.rows), group_keys(by_wave)),
                  primary_present(PrimaryAll(Restrict35(df.rows), group_keys(by_wave)),
                                  t, by_wave),
                  by_wave)

\* ------------------------------------------------------------------ normalization
\* A raw extract is a table of cells.  A derived number is written back as a
\* numeral; a float that holds a whole number is written as that number.

\* np.inf as a cut point, doubled like every cut point
inf == 1000000

\* (x >= k).astype(int) and (x <= k).astype(int): a null compares False
ge_int(c, k) == IF IsNum(c) /\ Val(c) >= k THEN "1" ELSE "0"
le_int(c, k) == IF IsNum(c) /\ Val(c) <= k THEN "1" ELSE "0"

\* ((a == 1) | (b == 1)).astype(int)
or_int(a, b) == IF a = "1" \/ b = "1" THEN "1" ELSE "0"

\* np.where(num_marriages >= 2, 1, np.where(num_marriages.isna(), np.nan, 0))
remarried_2plus_of(nm) == IF nm = NA THEN NA ELSE IF Val(nm) >= 2 THEN "1" ELSE "0"

\* interview_year - age
birth_year_of(interview_year, age) ==
    IF IsNum(age) THEN ToString(interview_year - Val(age)) ELSE NA

\* the bins of pd.cut that hold the doubled value v: bins2 are the doubled cut
\* points; right-closed intervals unless right is FALSE; include_lowest puts
\* the first cut point in the first bin
CutHits(v, bins2, right, include_lowest) ==
    {i \in 1..(Len(bins2) - 1) :
        IF right
        THEN \/ bins2[i] < v /\ v <= bins2[i + 1]
             \/ include_lowest /\ i = 1 /\ v = bins2[1]
        ELSE bins2[i] <= v /\ v < bins2[i + 1]}

\* pd.cut(x, bins, labels=labels, right=right, include_lowest=include_lowest)
\* of one cell: null for a null and for a value in no bin
cut(x, bins2, labels, right, include_lowest) ==
    IF ~ IsNum(x) \/ CutHits(2 * Val(x), bins2, right, include_lowest) = {} THEN NA
    ELSE labels[CHOOSE i \in CutHits(2 * Val(x), bins2, right, include_lowest) : TRUE]

\* the first name of the sequence required that is no column of the table, or
\* NA when the table has them all
FirstMissing(required, columns) ==
    IF \A i \in DOMAIN required : required[i] \in columns THEN NA
    ELSE required[CHOOSE i \in DOMAIN required :
                      /\ required[i] \notin columns
                      /\ \A j \in 1..(i - 1) : required[j] \in columns]

\* the outcome of a normalization: the analytic table, or the exception
Normalized(t) == [ok |-> TRUE, analytic |-> t, error |-> NoError]
Failed(type, missing, present) ==
    [ok |-> FALSE, analytic |-> NoTable,
     error |-> [raised |-> TRUE, type |-> type, missing |-> missing, present |-> present]]

\* ------------------------------------------------------------------ replicate_nsfh_wave1.py

\* bins_primary, doubled, and labels_primary
bins_primary == <<3903, 3913, 3921, 3929, 3937, 3945>>
labels_primary == <<"1952-56", "1957-60", "1961-64", "1965-68", "1969-72">>

\* bins_macro, doubled, and labels_macro
bins_macro == <<0 - inf, 3899, 3919, 3939, 3959, inf>>
labels_macro == <<"<=1949", "1950-59", "1960-69", "1970-79", ">=1980">>

\* df["M95"].replace({99: np.nan})
replace_99(c) == IF c = "99" THEN NA ELSE c

\* (df["num_marriages"].fillna(0) >= 1).astype(int)
fillna_ge_1(c) == ge_int(IF c = NA THEN "0" ELSE c, 1)

\* the columns main reads from the raw extract, in the order it reads them
Wave1Required == <<"M2BP01", "M2DP01", "M95", "NUMCOHAB", "MCASEID">>

\* one row of analytic (lines 26-70) from the raw row r
Wave1Record(r) ==
    [MCASEID |-> r["MCASEID"],
     age |-> r["M2BP01"],
     age_le_35 |-> le_int(r["M2BP01"], 35),
     sex |-> r["M2DP01"],
     sex_label |-> sex_label_from_code(r["M2DP01"]),
     birth_year |-> birth_year_of(1987, r["M2BP01"]),
     birth_cohort_primary |->
         cut(birth_year_of(1987, r["M2BP01"]), bins_primary, labels_primary, TRUE, TRUE),
     birth_cohort_macro |->
         cut(birth_year_of(1987, r["M2BP01"]), bins_macro, labels_macro, TRUE, TRUE),
     num_cohab_partners |-> r["NUMCOHAB"],
     ever_cohabited |-> ge_int(r["NUMCOHAB"], 1),
     num_marriages |-> replace_99(r["M95"]),
     ever_married |-> fillna_ge_1(replace_99(r["M95"])),
     remarried_2plus |-> ge_int(replace_99(r["M95"]), 2),
     ever_partnered |-> or_int(fillna_ge_1(replace_99(r["M95"])), ge_int(r["NUMCOHAB"], 1)),
     M2BP01 |-> r["M2BP01"], M2DP01 |-> r["M2DP01"],
     NUMCOHAB |-> r["NUMCOHAB"], M95 |-> r["M95"]]

analytic_cols ==
    {"MCASEID", "age", "age_le_35", "sex", "sex_label", "birth_year", "birth_cohort_primary",
     "birth_cohort_macro", "num_cohab_partners", "ever_cohabited", "num_marriages",
     "ever_married", "remarried_2plus", "ever_partnered", "M2BP01", "M2DP01", "NUMCOHAB", "M95"}

\* main up to the analytic extract: a column that is not there raises KeyError,
\* whose message is the column's name
Wave1Normalized(df) ==
    IF FirstMissing(Wave1Required, df.columns) # NA
    THEN Failed("KeyError", {FirstMissing(Wave1Required, df.columns)}, {})
    ELSE Normalized(Table(analytic_cols, MapRows(df.rows, Wave1Record)))

\* The aggregate columns of the wave scripts are named as in
\* replicate_nsfh_stacked.py: cohort_primary, sex_label, N_age_le_35,
\* p_ever_partnered, ..., female_minus_male_p_ever_partnered.

Wave1Sexes == <<"Female", "Male">>

\* make_table: one row per cohort label and sex with a respondent
make_table(sub) ==
    LET cohorts == SortKeys({<<r["birth_cohort_primary"]>> :
                                r \in {x \in Range(sub) : x["birth_cohort_primary"] # NA}})
        d(c, sx) == SelectRows(sub, LAMBDA r : r["birth_cohort_primary"] = c
                                              /\ r["sex_label"] = sx)
        row(c, sx) ==
            LET partnered == SelectRows(d(c, sx), LAMBDA r : r["ever_partnered"] = "1")
            IN  [cohort_primary |-> c, sex_label |-> sx,
                 N_age_le_35 |-> Len(d(c, sx)),
                 p_ever_partnered |-> [s |-> Len(partnered), n |-> Len(d(c, sx))],
                 mean_cohab_partners_if_partnered |-> Mean(partnered, "num_cohab_partners"),
                 mean_marriages_if_partnered |-> Mean(partnered, "num_marriages"),
                 p_remarried_2plus_if_partnered |-> Mean(partnered, "remarried_2plus")]
        cell(i, j) == IF d(cohorts[i][1], Wave1Sexes[j]) = <<>> THEN <<>>
                      ELSE <<row(cohorts[i][1], Wave1Sexes[j])>>
    IN  Concat([i \in DOMAIN cohorts |-> cell(i, 1) \o cell(i, 2)])

\* counts[(counts.get("Male", 0) >= MIN_N) & (counts.get("Female", 0) >= MIN_N)].index
Wave1Valid(tab, t) == {c \in PivotIndex(tab) : GetGe(tab, "Male", c, t) /\ GetGe(tab, "Female", c, t)}

\* the tables of main: an empty tab_primary has no columns to pivot, and with
\* no valid cohort the pivot has no "Female" column to subtract from
Wave1Tables(df, t) ==
    LET sub == Restrict35(df.rows)
        tab_primary == make_table(sub)
        present == SelectRows(tab_primary,
                              LAMBDA r : r["cohort_primary"] \in Wave1Valid(tab_primary, t))
    IN  IF tab_primary = <<>> \/ GapRaises(present) THEN Err
        ELSE Tables(tab_primary, present, GapRows(present))

\* ------------------------------------------------------------------ replicate_nsfh_wave2.py

COMMON_MISS == {7, 8, 9, 97, 98, 99, 997, 998, 999, 9997, 9998, 9999, 99997, 99998, 99999}

\* recode_missing_numeric(x, COMMON_MISS): null for a cell that is no number
\* and for a sentinel code
recode_missing_numeric(c) ==
    IF IsNum(c) /\ Val(c) \notin COMMON_MISS THEN c ELSE NA

macro_bin(by) ==
    IF by = NA THEN NA
    ELSE IF Val(by) <= 1949 THEN "<=1949"
    ELSE IF 1950 <= Val(by) /\ Val(by) <= 1959 THEN "1950-59"
    ELSE IF 1960 <= Val(by) /\ Val(by) <= 1969 THEN "1960-69"
    ELSE IF 1970 <= Val(by) /\ Val(by) <= 1979 THEN "1970-79"
    ELSE ">=1980"

\* np.where((num_marriages >= 1) | (mi40 == 1), 1,
\*          np.where(mi40.isna() & num_marriages.isna(), np.nan, 0)),
\* and the same for cohabitation with num_cohab_partners and mi42
ever_since(count, since) ==
    IF (count # NA /\ Val(count) >= 1) \/ since = "1" THEN "1"
    ELSE IF since = NA /\ count = NA THEN NA
    ELSE "0"

\* Wave2EverPartnered with an unknown indicator making the result unknown
Wave2EverPartneredStrict(ever_married, ever_cohabited) ==
    IF ever_married = NA \/ ever_cohabited = NA THEN NA
    ELSE IF ever_married = "1" \/ ever_cohabited = "1" THEN "1"
    ELSE "0"

\* np.where((ever_married == 1) | (ever_cohabited == 1), 1,
\*          np.where(pd.isna(ever_married) & pd.isna(ever_cohabited), np.nan, 0))
Wave2EverPartnered(ever_married, ever_cohabited) ==
    IF ever_married = "1" \/ ever_cohabited = "1" THEN "1"
    ELSE IF ever_married = NA /\ ever_cohabited = NA THEN NA
    ELSE "0"

\* np.where(age <= 35, 1, np.where(age.isna(), np.nan, 0))
Wave2AgeLe35(age) ==
    IF age # NA /\ Val(age) <= 35 THEN "1" ELSE IF age = NA THEN NA ELSE "0"

\* np.where(sex==1, "Male", np.where(sex==2, "Female", np.nan)): in an array
\* of strings the missing value is the text "nan"
Wave2SexLabel(sex) ==
    IF sex = "1" THEN "Male" ELSE IF sex = "2" THEN "Female" ELSE "nan"

\* birth_year_le35: the birth years of the rows of age <= 35
birth_year_le35(df, interview_year) ==
    {interview_year - Val(recode_missing_numeric(r["MA8"])) :
        r \in {x \in Range(df.rows) :
                   Wave2AgeLe35(recode_missing_numeric(x["MA8"])) = "1"}}

SetMin(S) == CHOOSE x \in S : \A y \in S : x <= y
SetMax(S) == CHOOSE x \in S : \A y \in S : x >= y

\* bins = list(range(start, end+2, 5)), doubled, and labels
primary_bins(bys) ==
    [k \in 1..((((SetMax(bys) \div 5) * 5 + 5 - (SetMin(bys) \div 5) * 5) \div 5) + 1) |->
        2 * ((SetMin(bys) \div 5) * 5 + 5 * (k - 1))]
primary_labels(bys) ==
    [k \in 1..(Len(primary_bins(bys)) - 1) |->
        ToString(primary_bins(bys)[k] \div 2) \o "-"
            \o ToString((primary_bins(bys)[k] \div 2) + 4)]

\* the columns main looks for, in the order of its loop
Wave2Required == <<"MA8", "MA7", "MI41", "MI140", "MI40", "MI42">>

\* one row of analytic (lines 99-149) from the raw row r
Wave2Record(r, interview_year, bys) ==
    [age |-> recode_missing_numeric(r["MA8"]),
     sex |-> recode_missing_numeric(r["MA7"]),
     sex_label |-> Wave2SexLabel(recode_missing_numeric(r["MA7"])),
     birth_year |-> birth_year_of(interview_year, recode_missing_numeric(r["MA8"])),
     num_marriages |-> recode_missing_numeric(r["MI41"]),
     ever_married |-> ever_since(recode_missing_numeric(r["MI41"]),
                                 recode_missing_numeric(r["MI40"])),
     remarried_2plus |-> remarried_2plus_of(recode_missing_numeric(r["MI41"])),
     num_cohab_partners |-> recode_missing_numeric(r["MI140"]),
     ever_cohabited |-> ever_since(recode_missing_numeric(r["MI140"]),
                                   recode_missing_numeric(r["MI42"])),
     ever_partnered |->
         Wave2EverPartnered(ever_since(recode_missing_numeric(r["MI41"]),
                                       recode_missing_numeric(r["MI40"])),
                            ever_since(recode_missing_numeric(r["MI140"]),
                                       recode_missing_numeric(r["MI42"]))),
     age_le_35 |-> Wave2AgeLe35(recode_missing_numeric(r["MA8"])),
     cohort_primary |->
         cut(birth_year_of(interview_year, recode_missing_numeric(r["MA8"])),
             primary_bins(bys), primary_labels(bys), FALSE, TRUE),
     cohort_macro |->
         macro_bin(birth_year_of(interview_year, recode_missing_numeric(r["MA8"]))),
     src_age_var |-> r["MA8"], src_sex_var |-> r["MA7"],
     src_MI40_married_since |-> r["MI40"], src_MI41_times_married_since |-> r["MI41"],
     src_MI42_cohab_since |-> r["MI42"], src_MI140_num_cohab_partners |-> r["MI140"]]

Wave2AnalyticColumns ==
    {"age", "sex", "sex_label", "birth_year", "num_marriages", "ever_married",
     "remarried_2plus", "num_cohab_partners", "ever_cohabited", "ever_partnered",
     "age_le_35", "cohort_primary", "cohort_macro", "src_age_var", "src_sex_var",
     "src_MI40_married_since", "src_MI41_times_married_since", "src_MI42_cohab_since",
     "src_MI140_num_cohab_partners"}

\* main up to the analytic extract: ValueError names the first source variable
\* that is no column and the file; with no row of age <= 35 the minimum is NaN
\* and range() raises TypeError
Wave2Normalized(df, interview_year) ==
    IF FirstMissing(Wave2Required, df.columns) # NA
    THEN Failed("ValueError", {FirstMissing(Wave2Required, df.columns)}, {})
    ELSE IF birth_year_le35(df, interview_year) = {} THEN Failed("TypeError", {}, {})
    ELSE Normalized(Table(Wave2AnalyticColumns,
                          MapRows(df.rows,
                                  LAMBDA r : Wave2Record(r, interview_year,
                                                         birth_year_le35(df, interview_year)))))


\* the frame out of cohort_sex_table before the threshold is applied
cohort_sex_out(df, only_present) ==
    LET d0 == Restrict35(df.rows)
        d == IF only_present THEN SelectRows(d0, LAMBDA r : r["cohort_primary"] # NA) ELSE d0
    IN  PrimaryAll(d, group_keys(FALSE))

\* pivotN.dropna().index[(pivotN.dropna() >= min_n).all(axis=1)]
Wave2Keep(out, min_n) ==
    {c \in DropNa(out) :
        \A s \in PivotColumns(out) : CellRow(out, c, s)["N_age_le_35"] >= min_n}

cohort_sex_table(df, only_present, min_n) ==
    LET out == cohort_sex_out(df, only_present)
    IN  SelectRows(out, LAMBDA r : r["cohort_primary"] \in Wave2Keep(out, min_n))

\* gap_table raises TypeError when tab has no "Female" or no "Male" column
gap_table(tab) == GapRows(tab)

Wave2Tables(df, min_n) ==
    LET tab_all == cohort_sex_table(df, FALSE, min_n)
        tab_present == cohort_sex_table(df, TRUE, min_n)
    IN  IF GapRaises(tab_present) THEN Err
        ELSE Tables(tab_all, tab_present, gap_table(tab_present))

\* ------------------------------------------------------------------ replicate_nsfh_wave3.py
\* The raw extract of wave 3 is the merged frame df of line 126; its field
\* roster_columns holds the columns of the roster file.

\* _to_num: pd.to_numeric(_clean_str(s), errors="coerce")
_to_num(c) == to_numeric(c)

\* find_col: the first candidate that is a column, NA for None (the columns
\* of the model are in upper case, as in the files)
find_col(columns, candidates) ==
    IF \A i \in DOMAIN candidates : candidates[i] \notin columns THEN NA
    ELSE candidates[CHOOSE i \in DOMAIN candidates :
                        /\ candidates[i] \in columns
                        /\ \A j \in 1..(i - 1) : candidates[j] \notin columns]

IsLeap(y) == (y % 4 = 0 /\ y % 100 # 0) \/ y % 400 = 0
DaysInMonth(y, m) ==
    IF m = 2 THEN (IF IsLeap(y) THEN 29 ELSE 28)
    ELSE IF m \in {4, 6, 9, 11} THEN 30 ELSE 31

\* the days from 1970-01-01 to the date y-m-d of the Gregorian calendar
DaysFromCivil(y, m, d) ==
    ((y - (IF m <= 2 THEN 1 ELSE 0)) \div 400) * 146097
        + ((y - (IF m <= 2 THEN 1 ELSE 0)) % 400) * 365
        + (((y - (IF m <= 2 THEN 1 ELSE 0)) % 400) \div 4)
        - (((y - (IF m <= 2 THEN 1 ELSE 0)) % 400) \div 100)
        + ((153 * (IF m > 2 THEN m - 3 ELSE m + 9) + 2) \div 5) + d - 1
        - 719468

\* pd.to_datetime(dict(year, month, day), errors="coerce") is NaT for a null
\* year and for a date that does not exist
IsDate(y, m, d) ==
    /\ y # NA /\ Val(m) \in 1..12
    /\ Val(d) \in 1..DaysInMonth(Val(y), Val(m))

fillna(c, v) == IF c = NA THEN v ELSE c

\* compute_age on one row, given that astype(int) of the interview year did
\* not raise: np.floor((iv - dob).dt.days / 365.25) with the birth on the 15th
compute_age(dob_year2, dob_month, int_year, int_month, int_day) ==
    IF /\ _to_num(dob_year2) # NA
       /\ IsDate(ToString(1900 + Val(_to_num(dob_year2))), fillna(_to_num(dob_month), "6"), "15")
       /\ IsDate(_to_num(int_year), fillna(_to_num(int_month), "6"),
                 fillna(_to_num(int_day), "15"))
    THEN ToString(((DaysFromCivil(Val(_to_num(int_year)),
                                  Val(fillna(_to_num(int_month), "6")),
                                  Val(fillna(_to_num(int_day), "15")))
                        - DaysFromCivil(1900 + Val(_to_num(dob_year2)),
                                        Val(fillna(_to_num(dob_month), "6")), 15)) * 4)
                  \div 1461)
    ELSE NA

\* astype(str) of a categorical: the missing value becomes the text "nan"
astype_str(c) == IF c = NA THEN "nan" ELSE c

make_primary_cohort(birth_year) ==
    cut(birth_year, <<0 - inf, 3878, 3898, 3918, 3938, 3958, 3978, 3998, inf>>,
        <<"<=1939", "1940-49", "1950-59", "1960-69", "1970-79", "1980-89", "1990-99",
          ">=2000">>, TRUE, FALSE)

\* make_macro_cohort with left-closed bins
make_macro_cohort_left(birth_year) ==
    cut(birth_year, <<0 - inf, 3898, 3918, 3938, 3958, inf>>,
        <<"<=1949", "1950-59", "1960-69", "1970-79", ">=1980">>, FALSE, FALSE)

make_macro_cohort(birth_year) ==
    cut(birth_year, <<0 - inf, 3898, 3918, 3938, 3958, inf>>,
        <<"<=1949", "1950-59", "1960-69", "1970-79", ">=1980">>, TRUE, FALSE)

\* ms.isin([1,2,3,4]).astype(float) and coh.eq(1).astype(float)
isin_float(c, S) == IF c # NA /\ Val(c) \in S THEN "1" ELSE "0"

\* ((ever_married == 1) & (mb == 2)).astype(float)
Wave3Remarried(ever_married, mb) == IF ever_married = "1" /\ mb = "2" THEN "1" ELSE "0"

\* num_marriages without line 175: every ever married respondent counted once
Wave3NumMarriages_once(ever_married, remarried_2plus) ==
    IF ever_married = "1" THEN "1" ELSE "0"

\* num_marriages of lines 172-175
Wave3NumMarriages(ever_married, remarried_2plus) ==
    IF remarried_2plus = "1" THEN "2" ELSE IF ever_married = "1" THEN "1" ELSE "0"

\* the names main requires, each with the candidates of its find_col
Wave3Required ==
    <<[name |-> "DOBM", candidates |-> <<"DOBM">>],
      [name |-> "DOBY", candidates |-> <<"DOBY">>],
      [name |-> "IDATYY", candidates |-> <<"IDATYY", "INTYY", "INTERVIEW_YEAR">>],
      [name |-> "IDATMM", candidates |-> <<"IDATMM", "INTMM">>],
      [name |-> "IDATDD", candidates |-> <<"IDATDD", "INTDD">>],
      [name |-> "SEX", candidates |-> <<"SEX_A", "SEXA", "RSEX", "SEX">>],
      [name |-> "MS", candidates |-> <<"MS_A", "MSA", "RMS", "MARSTAT", "MS">>]>>

missing_cols(columns) ==
    {q.name : q \in {x \in Range(Wave3Required) : find_col(columns, x.candidates) = NA}}

\* the column of the required name n
Wave3Column(columns, n) ==
    find_col(columns, (CHOOSE q \in Range(Wave3Required) : q.name = n).candidates)
mb_col(columns) == find_col(columns, <<"MB_A", "MBA", "MB">>)
coh_col(columns) == find_col(columns, <<"COH_A", "COHA", "COH">>)

\* a cell of the optional column col, the null of np.nan when col is None
OptionalCell(r, col) == IF col = NA THEN NA ELSE _to_num(r[col])

\* age, ever_married, remarried_2plus and ever_cohabited of the row r
Wave3Age(r, columns) ==
    compute_age(r[Wave3Column(columns, "DOBY")], r[Wave3Column(columns, "DOBM")],
                r[Wave3Column(columns, "IDATYY")], r[Wave3Column(columns, "IDATMM")],
                r[Wave3Column(columns, "IDATDD")])
Wave3EverMarried(r, columns) ==
    isin_float(_to_num(r[Wave3Column(columns, "MS")]), {1, 2, 3, 4})
Wave3RemarriedOf(r, columns) ==
    Wave3Remarried(Wave3EverMarried(r, columns), OptionalCell(r, mb_col(columns)))
Wave3EverCohabited(r, columns) ==
    IF coh_col(columns) = NA THEN NA ELSE isin_float(_to_num(r[coh_col(columns)]), {1})

\* the name of an audit column: f"raw_{col}", col being None when not found
RawName(col) == "raw_" \o (IF col = NA THEN "None" ELSE col)

\* the audit columns raw_<sex>, raw_<ms>, raw_<mb>, raw_<coh> of the row r
Wave3Audit(r, columns) ==
    [c \in {RawName(Wave3Column(columns, "SEX")), RawName(Wave3Column(columns, "MS")),
            RawName(mb_col(columns)), RawName(coh_col(columns))} |->
        IF c = RawName(coh_col(columns)) THEN OptionalCell(r, coh_col(columns))
        ELSE IF c = RawName(mb_col(columns)) THEN OptionalCell(r, mb_col(columns))
        ELSE IF c = RawName(Wave3Column(columns, "MS"))
             THEN _to_num(r[Wave3Column(columns, "MS")])
        ELSE _to_num(r[Wave3Column(columns, "SEX")])]

\* the other columns of analytic (lines 195-216) from the row r
Wave3Core(r, columns, interview_year) ==
    [caseid |-> r["CASENUM"],
     interview_year_mode |-> ToString(interview_year),
     age |-> Wave3Age(r, columns),
     sex |-> _to_num(r[Wave3Column(columns, "SEX")]),
     sex_label |-> sex_label_from_code(_to_num(r[Wave3Column(columns, "SEX")])),
     birth_year |-> birth_year_of(interview_year, Wave3Age(r, columns)),
     num_marriages |->
         Wave3NumMarriages(Wave3EverMarried(r, columns), Wave3RemarriedOf(r, columns)),
     ever_married |-> Wave3EverMarried(r, columns),
     remarried_2plus |-> Wave3RemarriedOf(r, columns),
     num_cohab_partners |-> NA,
     ever_cohabited |-> Wave3EverCohabited(r, columns),
     ever_partnered |-> or_int(Wave3EverMarried(r, columns), Wave3EverCohabited(r, columns)),
     age_le_35 |-> le_int(Wave3Age(r, columns), 35),
     primary_cohort |->
         astype_str(make_primary_cohort(birth_year_of(interview_year, Wave3Age(r, columns)))),
     macro_cohort |->
         astype_str(make_macro_cohort(birth_year_of(interview_year, Wave3Age(r, columns)))),
     raw_DOBM |-> _to_num(r[Wave3Column(columns, "DOBM")]),
     raw_DOBY |-> _to_num(r[Wave3Column(columns, "DOBY")]),
     raw_IDATYY |-> _to_num(r[Wave3Column(columns, "IDATYY")]),
     raw_IDATMM |-> _to_num(r[Wave3Column(columns, "IDATMM")]),
     raw_IDATDD |-> _to_num(r[Wave3Column(columns, "IDATDD")])]

\* a dict literal: the keys of g after those of f, a later key replacing
Merge(f, g) == [k \in DOMAIN f \cup DOMAIN g |-> IF k \in DOMAIN g THEN g[k] ELSE f[k]]

Wave3Record(r, columns, interview_year) ==
    Merge(Wave3Core(r, columns, interview_year), Wave3Audit(r, columns))

\* the columns of analytic
Wave3AnalyticColumns(columns) ==
    {"caseid", "interview_year_mode", "age", "sex", "sex_label", "birth_year",
     "num_marriages", "ever_married", "remarried_2plus", "num_cohab_partners",
     "ever_cohabited", "ever_partnered", "age_le_35", "primary_cohort", "macro_cohort",
     "raw_DOBM", "raw_DOBY", "raw_IDATYY", "raw_IDATMM", "raw_IDATDD",
     RawName(Wave3Column(columns, "SEX")), RawName(Wave3Column(columns, "MS")),
     RawName(mb_col(columns)), RawName(coh_col(columns))}

\* key_main and key_roster: CASENUM if it is a column, else CASEID, else None
merge_key(columns) ==
    IF "CASENUM" \in columns THEN "CASENUM"
    ELSE IF "CASEID" \in columns THEN "CASEID" ELSE NA

\* df_main[df_main["TYPE"].astype(str).str.strip().eq("R")] when TYPE is a column
type_R(main) ==
    IF "TYPE" \in main.columns
    THEN [main EXCEPT !.rows = SelectRows(main.rows, LAMBDA r : r["TYPE"] = "R")]
    ELSE main

\* the columns of the roster that the merge adds, and the name of each in the
\* merged frame: the key is kept once when both files name it alike, and a
\* name the main file has too gets the suffix _roster
roster_added(main, roster) ==
    roster.columns \ (IF merge_key(main.columns) = merge_key(roster.columns)
                      THEN {merge_key(roster.columns)} ELSE {})
suffixed(main, c) == IF c \in main.columns THEN c \o "_roster" ELSE c

\* one row of the merge: the main row m with the roster row q when it has
\* one, with nulls when not
join_row(main, roster, m, q, has) ==
    [c \in main.columns \cup {suffixed(main, x) : x \in roster_added(main, roster)} |->
        IF c \in main.columns THEN m[c]
        ELSE IF ~ has THEN NA
        ELSE q[CHOOSE x \in roster_added(main, roster) : suffixed(main, x) = c]]

\* the roster rows of the case of the main row m, in the order of the roster
roster_rows_of(main, roster, m) ==
    SelectRows(roster.rows,
               LAMBDA q : q[merge_key(roster.columns)] = m[merge_key(main.columns)])

\* df_main.merge(df_roster, left_on=key_main, right_on=key_roster, how="left",
\* suffixes=("", "_roster")): every main row, in order, once for each roster
\* row of its case and once with nulls when the roster has none
merge(main, roster) ==
    [columns |-> main.columns
                     \cup {suffixed(main, x) : x \in roster_added(main, roster)},
     rows |-> Concat([i \in DOMAIN main.rows |->
                         IF roster_rows_of(main, roster, main.rows[i]) = <<>>
                         THEN <<join_row(main, roster, main.rows[i], main.rows[i], FALSE)>>
                         ELSE MapRows(roster_rows_of(main, roster, main.rows[i]),
                                      LAMBDA q : join_row(main, roster, main.rows[i], q,
                                                          TRUE))]),
     roster_columns |-> roster.columns]

\* main from the merged frame to analytic: ValueError lists the required names
\* not found and the columns of the roster; a null interview year makes
\* iy.astype(int) raise for the whole frame
Wave3Normalized(df, interview_year) ==
    IF missing_cols(df.columns) # {}
    THEN Failed("ValueError", missing_cols(df.columns), df.roster_columns)
    ELSE IF \E r \in Range(df.rows) : _to_num(r[Wave3Column(df.columns, "IDATYY")]) = NA
    THEN Failed("IntCastingNaNError", {}, {})
    ELSE Normalized(Table(Wave3AnalyticColumns(df.columns),
                          MapRows(df.rows,
                                  LAMBDA r : Wave3Record(r, df.columns, interview_year))))

\* main from the two files read to analytic (lines 114-221)
Wave3Loaded(files3, interview_year) ==
    IF merge_key(files3.main.columns) = NA \/ merge_key(files3.roster.columns) = NA
    THEN Failed("ValueError", {}, {})
    ELSE Wave3Normalized(merge(type_R(files3.main), files3.roster), interview_year)

\* cohort_table: N over every (primary_cohort, sex) group, nulls included; the
\* metrics over the groups of groupby's default dropna=True, merged on the left
cohort_table(data) ==
    LET keys == <<"primary_cohort", "sex">>
        ks == SortKeys(GroupKeysAll(data, keys))
        row(k) ==
            LET d == SelectRows(data, LAMBDA r : KeyOf(r, keys) = k)
                m == metric_frame(d)
                known == k[2] # NA
            IN  [cohort_primary |-> k[1], sex |-> k[2],
                 sex_label |-> sex_label_from_code(k[2]),
                 N_age_le_35 |-> Len(d),
                 p_ever_partnered |-> IF known THEN m.p_ever_partnered ELSE NullMean,
                 mean_cohab_partners_if_partnered |->
                     IF known THEN m.mean_cohab_partners_if_partnered ELSE NullMean,
                 mean_marriages_if_partnered |->
                     IF known THEN m.mean_marriages_if_partnered ELSE NullMean,
                 p_remarried_2plus_if_partnered |->
                     IF known THEN m.p_remarried_2plus_if_partnered ELSE NullMean]
    IN  [i \in DOMAIN ks |-> row(ks[i])]

\* the rows pivot_table keeps: its groupby drops the null sex
KnownSex(tab) == SelectRows(tab, LAMBDA r : r["sex"] # NA)

\* counts[1] or counts[2] raises KeyError when no row has that sex code
Wave3Raises(tab) ==
    LET codes == {r["sex"] : r \in Range(KnownSex(tab))}
    IN  "1" \notin codes \/ "2" \notin codes

\* counts.dropna().loc[(counts[1] >= thresh) & (counts[2] >= thresh)].index
Wave3Keep(tab, t) ==
    {c \in DropNa(KnownSex(tab)) :
        /\ CellRow(KnownSex(tab), c, "Male")["N_age_le_35"] >= t
        /\ CellRow(KnownSex(tab), c, "Female")["N_age_le_35"] >= t}

\* the tables of main; the gap is pivoted from primary_all
Wave3Tables(df, t) ==
    LET a35 == Restrict35(df.rows)
        primary_all == cohort_table(a35)
        present == SelectRows(primary_all,
                              LAMBDA r : r["cohort_primary"] \in Wave3Keep(primary_all, t))
    IN  IF Wave3Raises(primary_all) THEN Err
        ELSE Tables(primary_all, present, GapRows(KnownSex(primary_all)))

\* ------------------------------------------------------------------ nsfh_plots.py

\* the leading digit runs of a label: the numeral itself, or the numeral before
\* the first non-digit of a range label
LeadingRuns(s) ==
    {a \in NumRange :
        \/ s = Numerals[a]
        \/ \E b \in NumRange : s = Numerals[a] \o "-" \o Numerals[b]}

\* cohort_sort_key: "<=" and ">=" stand for the less-or-equal and
\* greater-or-equal signs of the labels
cohort_sort_key(s) ==
    IF \E n \in NumRange : s = "<=" \o Numerals[n] THEN 0 - 10000
    ELSE IF \E n \in NumRange : s = ">=" \o Numerals[n]
         THEN CHOOSE n \in NumRange : s = ">=" \o Numerals[n]
    ELSE IF LeadingRuns(s) # {} THEN CHOOSE a \in LeadingRuns(s) : TRUE
    ELSE 0

\* the cohort labels the wave scripts write: the primary labels of wave 1 and
\* of wave 3, two of the five-year labels of wave 2, and the macro labels
CohortVocabulary ==
    Range(labels_primary) \cup Range(labels_macro)
        \cup {"<=1939", "1940-49", "1950-59", "1960-69", "1970-79", "1980-89", "1990-99",
              ">=2000", "1955-1959", "1960-1964"}

\* cohort_sort_key of every group key and cohort label of the model
CohortSortKeys ==
    [s \in Range(LexOrder) \cup {NA} \cup CohortVocabulary |-> cohort_sort_key(s)]

\* sorted(labels, key=cohort_sort_key): a stable sort, labels of equal key
\* stay in the order of the list
RECURSIVE sorted_by_key(_)
sorted_by_key(labels) ==
    IF labels = <<>> THEN <<>>
    ELSE LET i == CHOOSE k \in DOMAIN labels :
                      /\ \A j \in DOMAIN labels :
                             CohortSortKeys[labels[k]] <= CohortSortKeys[labels[j]]
                      /\ \A j \in 1..(k - 1) :
                             CohortSortKeys[labels[j]] # CohortSortKeys[labels[k]]
         IN  <<labels[i]>>
                 \o sorted_by_key(SubSeq(labels, 1, i - 1)
                                      \o SubSeq(labels, i + 1, Len(labels)))

\* 1.96, in hundredths
Z95 == 196

\* p * (1 - p) / n of a share p = s / n and a count, as a fraction
BinomialVariance(p, count) == [num |-> p.s * (p.n - p.s), den |-> p.n * p.n * count]

\* the same variance taken for both terms from the pooled share of the two groups
se_squared_pooled(pf, nf, pm, nm) ==
    IF pf.n = 0 \/ pm.n = 0 THEN [num |-> 0, den |-> 0]
    ELSE [num |-> (pf.s + pm.s) * (pf.n + pm.n - pf.s - pm.s) * (nf + nm),
          den |-> (pf.n + pm.n) * (pf.n + pm.n) * nf * nm]

\* the argument of np.sqrt in g["se"]: pF(1-pF)/NF + pM(1-pM)/NM, null when a
\* share is null
se_squared(pf, nf, pm, nm) ==
    IF pf.n = 0 \/ pm.n = 0 THEN [num |-> 0, den |-> 0]
    ELSE [num |-> BinomialVariance(pf, nf).num * BinomialVariance(pm, nm).den
                      + BinomialVariance(pm, nm).num * BinomialVariance(pf, nf).den,
          den |-> BinomialVariance(pf, nf).den * BinomialVariance(pm, nm).den]

\* gap + k/100 * se, kept as the pair of gap and k; se is the root of se2
PlusSe(gap, k) == [base |-> gap, k |-> k]

\* one row of g: the merge of a Female row f and a Male row m on cohort_primary
MergedGapRow(f, m) ==
    [wave |-> f["wave"], cohort_primary |-> f["cohort_primary"],
     p_ever_partnered_F |-> f["p_ever_partnered"], N_age_le_35_F |-> f["N_age_le_35"],
     p_ever_partnered_M |-> m["p_ever_partnered"], N_age_le_35_M |-> m["N_age_le_35"],
     gap |-> Minus(f["p_ever_partnered"], m["p_ever_partnered"]),
     se2 |-> se_squared(f["p_ever_partnered"], f["N_age_le_35"],
                        m["p_ever_partnered"], m["N_age_le_35"]),
     lo |-> PlusSe(Minus(f["p_ever_partnered"], m["p_ever_partnered"]), 0 - Z95),
     hi |-> PlusSe(Minus(f["p_ever_partnered"], m["p_ever_partnered"]), Z95)]

\* f.merge(m, on="cohort_primary") within the rows d of one wave
MergeOnCohort(d) ==
    Concat([i \in DOMAIN d |->
        IF d[i]["sex_label"] = "Female" /\ HasCell(d, d[i]["cohort_primary"], "Male")
        THEN <<MergedGapRow(d[i], CellRow(d, d[i]["cohort_primary"], "Male"))>>
        ELSE <<>>])

\* gdf of plot_gap_by_wave from the sheet stacked_primary_all_by_wave
plot_gap_by_wave(df) ==
    Concat([i \in DOMAIN WavesOf(df) |-> MergeOnCohort(WaveSub(df, WavesOf(df)[i][1]))])

\* ------------------------------------------------------------------ inputs

Thresholds == 1..MaxThreshold

CohortLabels == {"1960-69", "<=1939"}
SexLabels == {"Male", "Female"}

\* A respondent kind is <<wave, cohort, sex, age_le_35, ever_partnered, num_marriages>>.
Kind(w, c, s, a, ep, nm) == <<w, c, s, a, ep, nm>>

\* wide family: the group keys of wave 2 with a null cohort or sex, the sexes
\* of one cohort of wave 3, and respondents outside the age restriction
WideKinds ==
    {Kind("wave2", c, s, "1", "1", "1") : c \in {"1960-69", NA}, s \in SexLabels \cup {NA}}
    \cup {Kind("wave3", "1960-69", s, "1", "1", "1") : s \in SexLabels \cup {NA}}
    \cup {Kind("wave2", "1960-69", "Male", "0", "1", "1"),
          Kind("wave3", "1960-69", "Female", NA, "1", "1")}

\* gap family: one cohort of wave 2 with both sexes and both outcomes, a second
\* cohort of wave 2, and the same cohort in wave 3 with the opposite gap
GapKinds ==
    {Kind("wave2", "1960-69", s, "1", ep, ep) : s \in SexLabels, ep \in {"0", "1"}}
    \cup {Kind("wave2", "<=1939", s, "1", "1", "1") : s \in SexLabels}
    \cup {Kind("wave3", "1960-69", "Female", "1", "0", "0"),
          Kind("wave3", "1960-69", "Male", "1", "1", "1")}

\* content family: one wave and cohort, every ever_partnered / num_marriages content
ContentKinds ==
    {Kind("wave2", "1960-69", s, "1", x[1], x[2]) :
        s \in SexLabels,
        x \in {<<"1", "1">>, <<"1", "2">>, <<"1", NA>>, <<"0", "0">>, <<NA, NA>>}}

\* a set as a sequence, in some fixed order
RECURSIVE SetToSeq(_)
SetToSeq(S) == IF S = {} THEN <<>>
               ELSE LET x == CHOOSE y \in S : TRUE IN <<x>> \o SetToSeq(S \ {x})

\* the nondecreasing index sequences of length n over lo..hi
RECURSIVE NonDecreasing(_, _, _)
NonDecreasing(n, lo, hi) ==
    IF n = 0 THEN {<<>>}
    ELSE UNION {{<<k>> \o t : t \in NonDecreasing(n - 1, k, hi)} : k \in lo..hi}

\* the datasets of at most n respondents of the kinds K, one per multiset
DatasetsOver(ks, n) ==
    UNION {{[i \in DOMAIN ix |-> ks[ix[i]]] : ix \in NonDecreasing(m, 1, Len(ks))} :
           m \in 0..n}
Datasets(K, n) == UNION {DatasetsOver(ks, n) : ks \in {SetToSeq(K)}}

\* The analytic sheet row of a respondent as the wave 2 script writes it: the
\* columns compute_tables reads and src_age_var, one of the audit columns that
\* only wave 2 has.
Wave2SheetRow(k) ==
    [age_le_35 |-> k[4], cohort_primary |-> k[2], sex_label |-> k[3],
     ever_partnered |-> k[5], num_marriages |-> k[6], num_cohab_partners |-> k[5],
     remarried_2plus |-> remarried_2plus_of(k[6]), src_age_var |-> "1"]

\* The analytic sheet row of a respondent as the wave 3 script writes it: the
\* columns compute_tables reads, under wave 3's name primary_cohort, and caseid,
\* which only wave 3 has.  The text "nan" of an unknown cohort reads back null.
Wave3SheetRow(k) ==
    [age_le_35 |-> k[4], primary_cohort |-> k[2], sex_label |-> k[3],
     ever_partnered |-> k[5], num_marriages |-> k[6], num_cohab_partners |-> NA,
     remarried_2plus |-> remarried_2plus_of(k[6]), caseid |-> "2"]

Wave2SheetColumns ==
    {"age_le_35", "cohort_primary", "sex_label", "ever_partnered", "num_marriages",
     "num_cohab_partners", "remarried_2plus", "src_age_var"}
Wave3SheetColumns ==
    {"age_le_35", "primary_cohort", "sex_label", "ever_partnered", "num_marriages",
     "num_cohab_partners", "remarried_2plus", "caseid"}

\* The analytic sheet row of a respondent as the wave 1 script writes it: the
\* cohort under wave 1's name birth_cohort_primary, and MCASEID, which only
\* wave 1 has.
Wave1SheetRow(k) ==
    [age_le_35 |-> k[4], birth_cohort_primary |-> k[2], sex_label |-> k[3],
     ever_partnered |-> k[5], num_marriages |-> k[6], num_cohab_partners |-> k[5],
     remarried_2plus |-> remarried_2plus_of(k[6]), MCASEID |-> "1"]

Wave1SheetColumns ==
    {"age_le_35", "birth_cohort_primary", "sex_label", "ever_partnered", "num_marriages",
     "num_cohab_partners", "remarried_2plus", "MCASEID"}

Waves == <<"wave1", "wave2", "wave3">>

\* the sheet "analytic" of the file of wave w holding the respondents ds
SheetOf(w, ds) ==
    CASE w = "wave1" ->
             Table(Wave1SheetColumns,
                   MapRows(SelectRows(ds, LAMBDA k : k[1] = "wave1"), Wave1SheetRow))
      [] w = "wave2" ->
             Table(Wave2SheetColumns,
                   MapRows(SelectRows(ds, LAMBDA k : k[1] = "wave2"), Wave2SheetRow))
      [] w = "wave3" ->
             Table(Wave3SheetColumns,
                   MapRows(SelectRows(ds, LAMBDA k : k[1] = "wave3"), Wave3SheetRow))

\* inputs of main: the three (wave, path) pairs in their fixed order; the
\* files of the waves in present exist and hold the respondents ds
StackedFiles(ds, present) ==
    [i \in DOMAIN Waves |->
        [wave |-> Waves[i], exists |-> Waves[i] \in present,
         sheet |-> IF Waves[i] \in present THEN SheetOf(Waves[i], ds) ELSE NoTable]]

\* ---- the raw extracts of the wave scripts

Raw1(age, sex, m95, numcohab) ==
    [MCASEID |-> "1", M2BP01 |-> age, M2DP01 |-> sex, M95 |-> m95, NUMCOHAB |-> numcohab]

Raw2(age, sex, mi41, mi140, mi40, mi42) ==
    [MA8 |-> age, MA7 |-> sex, MI41 |-> mi41, MI140 |-> mi140, MI40 |-> mi40, MI42 |-> mi42]

\* wave 3: born in June of 19<doby>, interviewed on 15 June of idatyy; the
\* columns of the main file and of the household roster
Wave3MainColumns == {"CASENUM", "DOBY", "DOBM", "IDATYY", "IDATMM", "IDATDD"}
Wave3RosterColumns == {"CASENUM", "SEX", "MS", "MB", "COH"}
Raw3(doby, sex, ms, mb, coh, idatyy) ==
    [CASENUM |-> "1", DOBY |-> doby, DOBM |-> "6", IDATYY |-> idatyy, IDATMM |-> "6",
     IDATDD |-> "15", SEX |-> sex, MS |-> ms, MB |-> mb, COH |-> coh]

\* the respondents of the extracts of a wave, by family.  wide: the sexes,
\* nulls included, of respondents of one cohort, and respondents outside the
\* age restriction, too young for a cohort or of unknown age.  gap: one cohort
\* with both sexes and both outcomes, a second cohort, and a second marriage.
\* unknown: respondents whose marriage or cohabitation signals are missing, a
\* sentinel code or unparsable
Wave1Kinds ==
    [wide |-> {Raw1(a, sx, "1", "1") : a \in {"30", "14"}, sx \in {"1", "2", NA}}
                  \cup {Raw1("40", "1", "1", "1")},
     gap |-> {Raw1("30", sx, x, x) : sx \in {"1", "2"}, x \in {"0", "1"}}
                 \cup {Raw1("33", sx, "1", "1") : sx \in {"1", "2"}}
                 \cup {Raw1("30", "1", "2", "1")},
     unknown |-> {Raw1("30", "2", "99", NA), Raw1("30", "2", NA, "0"),
                  Raw1("30", "1", "99", "1"), Raw1(NA, "1", "1", "1")}]
Wave2Kinds ==
    [wide |-> {Raw2("33", sx, "1", "1", NA, NA) : sx \in {"1", "2", NA, "9"}}
                  \cup {Raw2("40", sx, "1", "1", NA, NA) : sx \in {"1", "2"}}
                  \cup {Raw2(NA, "1", "1", "1", NA, NA)},
     gap |-> {Raw2("33", sx, x, x, NA, NA) : sx \in {"1", "2"}, x \in {"0", "1"}}
                 \cup {Raw2("35", sx, "1", "1", NA, NA) : sx \in {"1", "2"}}
                 \cup {Raw2("33", "1", "2", "1", NA, NA)},
     unknown |-> {Raw2("33", "2", NA, NA, NA, NA), Raw2("33", "1", NA, NA, NA, NA),
                  Raw2("33", "2", NA, "0", "1", NA), Raw2("33", "2", "9", NA, NA, "2"),
                  Raw2("33", "1", "x", "1", NA, NA)}]
Wave3Kinds ==
    [wide |-> {Raw3("70", sx, "1", "1", "2", "2002") : sx \in {"1", "2", NA}}
                  \cup {Raw3(NA, sx, "1", "1", "2", "2002") : sx \in {"1", "2"}}
                  \cup {Raw3("60", "1", "1", "1", "2", "2002")},
     gap |-> {Raw3("70", sx, ms, "1", "2", "2002") : sx \in {"1", "2"}, ms \in {"1", "5"}}
                 \cup {Raw3("80", sx, "1", "1", "2", "2002") : sx \in {"1", "2"}}
                 \cup {Raw3("70", "1", "1", "2", "2", "2002")},
     unknown |-> {Raw3("70", "2", NA, NA, NA, "2002"), Raw3("70", "2", "5", NA, "1", "2002"),
                  Raw3("70", "1", "9", "2", "x", "2002"),
                  Raw3("70", "1", "1", "1", "2", NA)}]

WaveDatasets(kinds) ==
    Datasets(kinds.wide, MaxRows) \cup Datasets(kinds.gap, MaxGapRows)
        \cup Datasets(kinds.unknown, MaxRows)

\* a table without the columns cs
DropColumns(t, cs) ==
    [t EXCEPT !.columns = t.columns \ cs,
              !.rows = MapRows(t.rows, LAMBDA r : [c \in DOMAIN r \ cs |-> r[c]])]

\* extracts that lack one column, with no row and with one
Lacking(cs, t) ==
    {DropColumns(t, {c}) : c \in cs}
        \cup {DropColumns([t EXCEPT !.rows = <<>>], {c}) : c \in cs}

\* the rows ds, the i-th with the case identifier i in the column key
Numbered(ds, key) == [i \in DOMAIN ds |-> [ds[i] EXCEPT ![key] = ToString(i)]]

\* the columns cs of the rows
Project(rows, cs) == MapRows(rows, LAMBDA r : [c \in cs |-> r[c]])

Wave1Raws ==
    {Table(Range(Wave1Required), Numbered(ds, "MCASEID")) :
        ds \in WaveDatasets(Wave1Kinds)}
    \cup Lacking(Range(Wave1Required),
                 Table(Range(Wave1Required), <<Raw1("30", "1", "1", "1")>>))

Wave2Raws ==
    {Table(Range(Wave2Required), ds) :
        ds \in WaveDatasets(Wave2Kinds)}
    \cup Lacking(Range(Wave2Required),
                 Table(Range(Wave2Required), <<Raw2("33", "1", "1", "1", NA, NA)>>))

\* the two files of wave 3 for the respondents ds: the main file with one row
\* for each, and a roster with one row for each
Files3(ds) ==
    [main |-> Table(Wave3MainColumns, Project(Numbered(ds, "CASENUM"), Wave3MainColumns)),
     roster |-> Table(Wave3RosterColumns,
                      Project(Numbered(ds, "CASENUM"), Wave3RosterColumns))]

\* rosters of other contents: a second member of the household of the first
\* respondent, no row for the first respondent, and a main file with rows of
\* type R and a row of another type
RosterVariants(f) ==
    IF f.main.rows = <<>> THEN {}
    ELSE {[f EXCEPT !.roster.rows = Append(@, [@[1] EXCEPT !["SEX"] = "1"])],
          [f EXCEPT !.roster.rows = Tail(@)],
          [f EXCEPT !.main.columns = @ \cup {"TYPE"},
                    !.main.rows = [i \in DOMAIN @ |->
                                      SetColumn(@[i], "TYPE", IF i = 1 THEN "S" ELSE "R")]]}

\* the files without the columns cs
DropFiles(f, cs) ==
    [main |-> DropColumns(f.main, cs), roster |-> DropColumns(f.roster, cs)]

Wave3Raws ==
    {Files3(ds) : ds \in WaveDatasets(Wave3Kinds)}
    \cup UNION {RosterVariants(Files3(ds)) : ds \in Datasets(Wave3Kinds.wide, 2)}
    \cup {DropFiles(Files3(ds), cs) :
             ds \in {<<>>, <<Raw3("70", "2", "1", "2", "1", "2002")>>},
             cs \in {{c} : c \in (Wave3MainColumns \cup Wave3RosterColumns) \ {"CASENUM"}}
                        \cup {{"MB", "COH"}, {"SEX", "MS"}}}
    \cup {[Files3(<<Raw3("70", "2", "1", "2", "1", "2002")>>) EXCEPT
               !.roster = DropColumns(@, {"CASENUM"})]}

InitWave ==
    /\ n_threshold \in Thresholds
    /\ \/ script = "wave1" /\ raw \in Wave1Raws
       \/ script = "wave2" /\ raw \in Wave2Raws
       \/ script = "wave3" /\ raw \in Wave3Raws
    /\ pc = "start"
    /\ files = <<>> /\ dfs = <<>> /\ stacked = NoTable /\ analytic = NoTable
    /\ pooled = None /\ bywave = None /\ gdf = <<>> /\ tables = None
    /\ warned = <<>> /\ written = {} /\ error = NoError

StackedDatasets ==
    Datasets(WideKinds, MaxRows) \cup Datasets(GapKinds, MaxGapRows)
        \cup Datasets(ContentKinds, MaxRows)

\* presence family: one respondent kind per wave, for the runs in which any
\* of the three input files may be missing
PresenceKinds ==
    {Kind(w, IF w = "wave1" THEN "1957-60" ELSE "1960-69", "Female", "1", "1", "1") :
        w \in Range(Waves)}
PresenceDatasets == Datasets(PresenceKinds, MaxRows)

InitStacked ==
    /\ script = "stacked"
    /\ pc = "start"
    /\ n_threshold \in Thresholds
    /\ \/ \E ds \in StackedDatasets : files = StackedFiles(ds, {"wave2", "wave3"})
       \/ \E ds \in PresenceDatasets : \E present \in SUBSET Range(Waves) :
              /\ \A k \in Range(ds) : k[1] \in present
              /\ files = StackedFiles(ds, present)
    /\ dfs = <<>> /\ stacked = NoTable /\ pooled = None /\ bywave = None /\ gdf = <<>>
    /\ analytic = NoTable /\ tables = None
    /\ warned = <<>> /\ written = {} /\ error = NoError /\ raw = NoTable

\* ------------------------------------------------------------------ actions

\* read_inputs reading every path, whether or not the file exists
read_inputs_unchecked(fs) == MapRows(fs, LAMBDA f : read_analytic(f.sheet, f.wave))

\* dfs after the loop of main: the tables of the files that exist, in the
\* order of inputs
read_inputs(fs) ==
    MapRows(SelectRows(fs, LAMBDA f : f.exists), LAMBDA f : read_analytic(f.sheet, f.wave))

\* the waves of the WARNING lines: the files that do not exist, in order
missing_inputs(fs) == MapRows(SelectRows(fs, LAMBDA f : ~ f.exists), LAMBDA f : f.wave)

\* main of replicate_nsfh_stacked.py: the loop over inputs, then the test of
\* dfs; with no table read the run ends in FileNotFoundError
ReadInputs ==
    /\ script = "stacked" /\ pc = "start"
    /\ dfs' = read_inputs(files)
    /\ warned' = missing_inputs(files)
    /\ IF read_inputs(files) = <<>>
       THEN pc' = "aborted" /\ error' = [NoError EXCEPT !.raised = TRUE,
                                                         !.type = "FileNotFoundError"]
       ELSE pc' = "read" /\ error' = error
    /\ UNCHANGED <<script, n_threshold, files, stacked, pooled, bywave, gdf, analytic, tables,
                   written, raw>>

\* stacked = stack_align(dfs)
StackAlign ==
    /\ script = "stacked" /\ pc = "read"
    /\ stacked' = stack_align(dfs)
    /\ dfs' = stack_align_inputs(dfs)
    /\ written' = written \cup {"NSFH_stacked_analytic_replication_ready.xlsx"}
    /\ pc' = "stacked"
    /\ UNCHANGED <<script, n_threshold, files, pooled, bywave, gdf, analytic, tables,
                   warned, error, raw>>

\* compute_tables applied to stacked with by_wave=False and with by_wave=True
\* (lines 168 and 170); the outcome of each call is recorded on its own.  The
\* workbook of tables is written when both calls returned.
ComputeTables ==
    /\ script = "stacked" /\ pc = "stacked"
    /\ pooled' \in compute_tables(stacked, n_threshold, FALSE)
    /\ bywave' \in compute_tables(stacked, n_threshold, TRUE)
    /\ written' = IF pooled'.status = "ok" /\ bywave'.status = "ok"
                  THEN written \cup {"NSFH_stacked_tables.xlsx"}
                  ELSE written
    /\ pc' = "computed"
    /\ UNCHANGED <<script, n_threshold, files, dfs, stacked, gdf, analytic, tables,
                   warned, error, raw>>

\* nsfh_plots.plot_gap_by_wave on the workbook the stacked script wrote, which
\* it writes when both compute_tables calls returned
PlotGapByWave ==
    /\ script = "stacked" /\ pc = "computed"
    /\ pooled.status = "ok" /\ bywave.status = "ok"
    /\ gdf' = plot_gap_by_wave(bywave.primary_all)
    /\ pc' = "plotted"
    /\ UNCHANGED <<script, n_threshold, files, dfs, stacked, pooled, bywave, analytic, tables,
                   warned, written, error, raw>>

\* main of replicate_nsfh_wave1.py up to the analytic extract, which it writes
Wave1Normalize ==
    /\ script = "wave1" /\ pc = "start"
    /\ \E out \in {Wave1Normalized(raw)} :
           /\ analytic' = out.analytic
           /\ error' = out.error
           /\ IF out.ok
              THEN pc' = "normalized"
                   /\ written' = written \cup {"NSFH_Wave1_analytic_replication_ready.xlsx"}
              ELSE pc' = "error" /\ written' = written
    /\ UNCHANGED <<script, n_threshold, files, dfs, stacked, pooled, bywave, gdf, tables,
                   warned, raw>>

\* main of replicate_nsfh_wave1.py from the analytic table on
Wave1Main ==
    /\ script = "wave1" /\ pc = "normalized"
    /\ tables' = Wave1Tables(analytic, n_threshold)
    /\ written' = IF tables'.status = "ok"
                  THEN written \cup {"NSFH_Wave1_tables.xlsx"}
                  ELSE written
    /\ pc' = "done"
    /\ UNCHANGED <<script, n_threshold, files, dfs, stacked, pooled, bywave, gdf, analytic,
                   warned, error, raw>>

\* main of replicate_nsfh_wave2.py up to the analytic extract, which it
\* writes; --interview_year stands at its default
Wave2Normalize ==
    /\ script = "wave2" /\ pc = "start"
    /\ \E out \in {Wave2Normalized(raw, 1993)} :
           /\ analytic' = out.analytic
           /\ error' = out.error
           /\ IF out.ok
              THEN pc' = "normalized"
                   /\ written' = written \cup {"NSFH_Wave2_analytic_replication_ready.xlsx"}
              ELSE pc' = "error" /\ written' = written
    /\ UNCHANGED <<script, n_threshold, files, dfs, stacked, pooled, bywave, gdf, tables,
                   warned, raw>>

\* main of replicate_nsfh_wave2.py from the analytic table on
Wave2Main ==
    /\ script = "wave2" /\ pc = "normalized"
    /\ tables' = Wave2Tables(analytic, n_threshold)
    /\ written' = IF tables'.status = "ok"
                  THEN written \cup {"NSFH_Wave2_tables.xlsx"}
                  ELSE written
    /\ pc' = "done"
    /\ UNCHANGED <<script, n_threshold, files, dfs, stacked, pooled, bywave, gdf, analytic,
                   warned, error, raw>>

\* main of replicate_nsfh_wave3.py from the merged frame to analytic;
\* --interview_year_mode stands at its default
Wave3Normalize ==
    /\ script = "wave3" /\ pc = "start"
    /\ \E out \in {Wave3Loaded(raw, 2002)} :
           /\ analytic' = out.analytic
           /\ error' = out.error
           /\ pc' = IF out.ok THEN "normalized" ELSE "error"
    /\ UNCHANGED <<script, n_threshold, files, dfs, stacked, pooled, bywave, gdf, tables,
                   warned, written, raw>>

\* main of replicate_nsfh_wave3.py from the analytic table on: both workbooks
\* are written after the tables are built
Wave3Main ==
    /\ script = "wave3" /\ pc = "normalized"
    /\ tables' = Wave3Tables(analytic, n_threshold)
    /\ written' = IF tables'.status = "ok"
                  THEN written \cup {"NSFH_Wave3_analytic_replication_ready.xlsx",
                                     "NSFH_Wave3_tables.xlsx"}
                  ELSE written
    /\ pc' = "done"
    /\ UNCHANGED <<script, n_threshold, files, dfs, stacked, pooled, bywave, gdf, analytic,
                   warned, error, raw>>

\* ---- the functions of the scripts on values of their own

\* the three macro binners on one birth year: wave 1's cut (lines 53-55),
\* wave 2's macro_bin and wave 3's make_macro_cohort
MacroYears == {Numerals[y] : y \in (1965 - YearSpan)..(1965 + YearSpan)}

\* the lists of distinct labels that unique() gives to sorted
LabelLists ==
    {l \in UNION {[1..n -> CohortVocabulary] : n \in 0..MaxLabels} :
        \A i, j \in DOMAIN l : l[i] = l[j] => i = j}

InitFunctions ==
    /\ \/ script = "macro" /\ raw \in MacroYears
       \/ script = "sorted" /\ raw \in LabelLists
    /\ pc = "start" /\ n_threshold = 1
    /\ files = <<>> /\ dfs = <<>> /\ stacked = NoTable /\ analytic = NoTable
    /\ pooled = None /\ bywave = None /\ gdf = <<>> /\ tables = None
    /\ warned = <<>> /\ written = {} /\ error = NoError

MacroBinners ==
    /\ script = "macro" /\ pc = "start"
    /\ analytic' = Table({"wave1", "wave2", "wave3"},
                         <<[wave1 |-> cut(raw, bins_macro, labels_macro, TRUE, TRUE),
                            wave2 |-> macro_bin(raw),
                            wave3 |-> make_macro_cohort(raw)]>>)
    /\ pc' = "done"
    /\ UNCHANGED <<script, n_threshold, files, dfs, stacked, pooled, bywave, gdf, tables,
                   warned, written, error, raw>>

\* sorted(d["cohort_primary"].dropna().unique(), key=cohort_sort_key)
SortCohorts ==
    /\ script = "sorted" /\ pc = "start"
    /\ analytic' = Table({}, sorted_by_key(raw))
    /\ pc' = "done"
    /\ UNCHANGED <<script, n_threshold, files, dfs, stacked, pooled, bywave, gdf, tables,
                   warned, written, error, raw>>

Init == InitStacked \/ InitWave \/ InitFunctions

Next ==
    \/ ReadInputs \/ StackAlign \/ ComputeTables \/ PlotGapByWave
    \/ Wave1Normalize \/ Wave1Main
    \/ Wave2Normalize \/ Wave2Main
    \/ Wave3Normalize \/ Wave3Main
    \/ MacroBinners \/ SortCohorts

Spec == Init /\ [][Next]_vars

\* ------------------------------------------------------------------ claims

\* the rows of an aggregate table in scope w: a wave of the by-wave table, or
\* "*" for the whole pooled table
InScope(r, w) == IF w = "*" THEN TRUE ELSE r["wave"] = w
Scopes(res, by_wave) ==
    IF by_wave THEN {r["wave"] : r \in Range(res.primary_all)} ELSE {"*"}
CohortsIn(rows, w) == {r["cohort_primary"] : r \in {x \in Range(rows) : InScope(x, w)}}

\* primary_all has a row of sex s for cohort c in scope w with N >= t
SexMeets(res, w, c, s, t) ==
    \E r \in Range(res.primary_all) :
        /\ InScope(r, w) /\ r["cohort_primary"] = c /\ r["sex_label"] = s
        /\ r["N_age_le_35"] >= t

SuppressionIff(res, by_wave) ==
    res.status = "ok" =>
        \A w \in Scopes(res, by_wave) : \A c \in CohortsIn(res.primary_all, w) :
            c \in CohortsIn(res.primary_present, w)
                <=> SexMeets(res, w, c, "Male", n_threshold)
                    /\ SexMeets(res, w, c, "Female", n_threshold)

\* C1: in compute_tables, pooled and within each wave, a cohort is in
\* primary_present if and only if primary_all has a Male row and a Female row
\* for it and both have N >= threshold.
C1_SuppressionIff ==
    SuppressionIff(pooled, FALSE) /\ SuppressionIff(bywave, TRUE)

\* the scope of a row: its wave in the by-wave table, "*" in a pooled one
ScopeOf(r, by_wave) == IF by_wave THEN r["wave"] ELSE "*"

\* q belongs to the cohort of r, in the same scope
SameCohort(r, q, by_wave) ==
    r["cohort_primary"] = q["cohort_primary"] /\ ScopeOf(r, by_wave) = ScopeOf(q, by_wave)

WholeCohorts(res, by_wave) ==
    res.status = "ok" =>
        /\ res.primary_present =
               SelectRows(res.primary_all,
                          LAMBDA r : \E q \in Range(res.primary_present) :
                                         SameCohort(r, q, by_wave))
        /\ \A r \in Range(res.primary_present) :
               /\ SexMeets(res, ScopeOf(r, by_wave), r["cohort_primary"], "Male", n_threshold)
               /\ SexMeets(res, ScopeOf(r, by_wave), r["cohort_primary"], "Female", n_threshold)

\* C2: primary_present of compute_tables is primary_all restricted to whole
\* cohorts: it is the rows of primary_all, unaltered and in order, of the
\* cohorts that occur in it, and no cohort that fails the test (a sex absent or
\* with N below the threshold) has a row in it.
C2_WholeCohorts == WholeCohorts(pooled, FALSE) /\ WholeCohorts(bywave, TRUE)

\* a by-wave result that keeps one cohort and drops another
C2_Witness ==
    /\ bywave.status = "ok"
    /\ bywave.primary_present # <<>>
    /\ Len(bywave.primary_present) < Len(bywave.primary_all)

\* the column of the analytic table that holds the primary cohort
CohortColumn ==
    CASE script = "wave1" -> "birth_cohort_primary"
      [] script = "wave3" -> "primary_cohort"
      [] OTHER -> "cohort_primary"

\* the respondent table the running script aggregates
SourceRows == IF script = "stacked" THEN stacked.rows ELSE analytic.rows

\* the respondents of age_le_35 = 1 in the group of cohort c and sex s, in
\* scope w, by their row numbers
GroupOf(c, s, w) ==
    {i \in DOMAIN SourceRows :
        /\ SourceRows[i]["age_le_35"] = "1"
        /\ SourceRows[i][CohortColumn] = c
        /\ SourceRows[i]["sex_label"] = s
        /\ w # "*" => SourceRows[i]["wave"] = w}

SourceN(c, s, w) == Cardinality(GroupOf(c, s, w))

\* the share of ever_partnered = 1 among the known values of the group
SourceP(c, s, w) ==
    [s |-> Cardinality({i \in GroupOf(c, s, w) : SourceRows[i]["ever_partnered"] = "1"}),
     n |-> Cardinality({i \in GroupOf(c, s, w) :
                            SourceRows[i]["ever_partnered"] \in {"0", "1"}})]

\* primary_all of res has a row for the group of the analytic row r
HasGroupRow(res, r, by_wave) ==
    \E q \in Range(res.primary_all) :
        /\ q["cohort_primary"] = r[CohortColumn]
        /\ q["sex_label"] = r["sex_label"]
        /\ by_wave => q["wave"] = r["wave"]

\* C3: primary_all is unsuppressed in every script: every (cohort, sex) group
\* (plus wave, by wave) with a respondent of age_le_35 = 1 has a row in
\* primary_all whatever the threshold.  For the wave scripts the statement is
\* taken over the groups with a cohort label and a sex of Male or Female.
C3_PrimaryAllUnsuppressed ==
    /\ pooled.status = "ok" =>
           \A r \in Range(stacked.rows) :
               r["age_le_35"] = "1" => HasGroupRow(pooled, r, FALSE)
    /\ bywave.status = "ok" =>
           \A r \in Range(stacked.rows) :
               r["age_le_35"] = "1" => HasGroupRow(bywave, r, TRUE)
    /\ tables.status = "ok" =>
           \A r \in Range(analytic.rows) :
               (r["age_le_35"] = "1" /\ r[CohortColumn] # NA /\ r["sex_label"] \in SexLabels)
                   => HasGroupRow(tables, r, FALSE)

\* the (scope, cohort) keys of the rows of a table, in order
CohortKeys(rows, by_wave) ==
    [i \in DOMAIN rows |-> <<ScopeOf(rows[i], by_wave), rows[i]["cohort_primary"]>>]

OneGapRowPerRetained(res, by_wave) ==
    res.status = "ok" =>
        /\ \A i, j \in DOMAIN res.ever_partnered_gap :
               i # j => CohortKeys(res.ever_partnered_gap, by_wave)[i]
                            # CohortKeys(res.ever_partnered_gap, by_wave)[j]
        /\ Range(CohortKeys(res.ever_partnered_gap, by_wave))
               = Range(CohortKeys(res.primary_present, by_wave))
        /\ \A g \in Range(res.ever_partnered_gap) :
               /\ SourceN(g["cohort_primary"], "Male", ScopeOf(g, by_wave)) >= n_threshold
               /\ SourceN(g["cohort_primary"], "Female", ScopeOf(g, by_wave)) >= n_threshold

\* C4: every ever_partnered_gap table (pooled, by wave, and each wave
\* script's own) has exactly one row per cohort of primary_present and no row
\* for a cohort in which a sex is absent or has N below the threshold.
C4_OneGapRowPerRetained ==
    /\ OneGapRowPerRetained(pooled, FALSE)
    /\ OneGapRowPerRetained(bywave, TRUE)
    /\ OneGapRowPerRetained(tables, FALSE)

\* the gap value v is pf - pm as a fraction, null when either is null
IsDifference(v, pf, pm) ==
    IF pf.n = 0 \/ pm.n = 0 THEN v.den = 0
    ELSE v.den # 0 /\ v.num * (pf.n * pm.n) = (pf.s * pm.n - pm.s * pf.n) * v.den

FemaleMinusMale(res, by_wave) ==
    res.status = "ok" =>
        \A g \in Range(res.ever_partnered_gap) :
            IsDifference(g["female_minus_male_p_ever_partnered"],
                         SourceP(g["cohort_primary"], "Female", ScopeOf(g, by_wave)),
                         SourceP(g["cohort_primary"], "Male", ScopeOf(g, by_wave)))

\* C5: each gap row's value is the Female p_ever_partnered minus the Male
\* p_ever_partnered of the same cohort (and wave, by wave), in every script,
\* each p being the share of ever_partnered = 1 among the group's respondents.
C5_FemaleMinusMale ==
    /\ FemaleMinusMale(pooled, FALSE)
    /\ FemaleMinusMale(bywave, TRUE)
    /\ FemaleMinusMale(tables, FALSE)

\* a by-wave gap table of two cohorts with different, nonzero gaps
C5_Witness ==
    /\ bywave.status = "ok"
    /\ \E g, h \in Range(bywave.ever_partnered_gap) :
           /\ g["female_minus_male_p_ever_partnered"].den # 0
           /\ h["female_minus_male_p_ever_partnered"].den # 0
           /\ g["female_minus_male_p_ever_partnered"].num > 0
           /\ h["female_minus_male_p_ever_partnered"].num < 0

CountsRespondents(res, by_wave) ==
    res.status = "ok" =>
        /\ \A r \in Range(res.primary_all) :
               r["N_age_le_35"]
                   = SourceN(r["cohort_primary"], r["sex_label"], ScopeOf(r, by_wave))
        /\ SumOver(res.primary_all, LAMBDA r : r["N_age_le_35"])
               = Cardinality({i \in DOMAIN stacked.rows : stacked.rows[i]["age_le_35"] = "1"})

\* C7: in primary_all of compute_tables, N of a row is the number of rows of
\* the dataset with age_le_35 = 1 and the row's group key, a null cohort or
\* sex_label being a key value of its own, and the N values sum to the number
\* of rows with age_le_35 = 1.
C7_CountsRespondents == CountsRespondents(pooled, FALSE) /\ CountsRespondents(bywave, TRUE)

\* a pooled table with a null-cohort group, from a dataset that also holds a
\* respondent outside the age restriction
C7_Witness ==
    /\ pooled.status = "ok"
    /\ \E r \in Range(pooled.primary_all) : r["cohort_primary"] = NA
    /\ \E x \in Range(stacked.rows) : x["age_le_35"] # "1"

ShareOfKnown(res, by_wave) ==
    res.status = "ok" =>
        \A r \in Range(res.primary_all) :
            r["p_ever_partnered"]
                = SourceP(r["cohort_primary"], r["sex_label"], ScopeOf(r, by_wave))

\* C8: p_ever_partnered of a group is the number of its rows with
\* ever_partnered = 1 over the number of its rows with ever_partnered known,
\* null when none is known, in compute_tables and in each wave script's table.
C8_ShareOfKnown ==
    /\ ShareOfKnown(pooled, FALSE)
    /\ ShareOfKnown(bywave, TRUE)
    /\ ShareOfKnown(tables, FALSE)

\* the respondents of the group of the table row q with ever_partnered = 1
SourcePartnered(q, by_wave) ==
    SelectRows(SourceRows,
               LAMBDA r : /\ r["age_le_35"] = "1"
                          /\ r[CohortColumn] = q["cohort_primary"]
                          /\ r["sex_label"] = q["sex_label"]
                          /\ by_wave => r["wave"] = q["wave"]
                          /\ r["ever_partnered"] = "1")

\* every row of primary_all has its conditional metrics over the partnered
\* respondents of its group, which is null when there is none
ConditionalMetrics(res, by_wave) ==
    res.status = "ok" =>
        \A q \in Range(res.primary_all) :
            /\ q["N_age_le_35"]
                   = SourceN(q["cohort_primary"], q["sex_label"], ScopeOf(q, by_wave))
            /\ q["mean_cohab_partners_if_partnered"]
                   = Mean(SourcePartnered(q, by_wave), "num_cohab_partners")
            /\ q["mean_marriages_if_partnered"]
                   = Mean(SourcePartnered(q, by_wave), "num_marriages")
            /\ q["p_remarried_2plus_if_partnered"]
                   = Mean(SourcePartnered(q, by_wave), "remarried_2plus")
            /\ SourcePartnered(q, by_wave) = <<>> =>
                   /\ q["mean_cohab_partners_if_partnered"] = NullMean
                   /\ q["mean_marriages_if_partnered"] = NullMean
                   /\ q["p_remarried_2plus_if_partnered"] = NullMean

\* a group is emitted whether or not it has a partnered respondent: in
\* compute_tables every group, in wave 2 every group of a cohort of the table
EmittedWithoutPartnered(res, by_wave) ==
    res.status = "ok" =>
        \A r \in Range(SourceRows) :
            (/\ r["age_le_35"] = "1"
             /\ script = "wave2" =>
                    \E q \in Range(res.primary_all) : q["cohort_primary"] = r[CohortColumn])
                => HasGroupRow(res, r, by_wave)

RowsBefore(ds, i) ==
    LET F[k \in 0..Len(ds)] == IF k = 0 THEN 0 ELSE F[k - 1] + Len(ds[k].rows)
    IN  F[i - 1]

SchemaComplete(ds, out) ==
    /\ \A i \in DOMAIN ds : ds[i].columns \subseteq out.columns
    /\ Len(out.rows) = RowsBefore(ds, Len(ds) + 1)
    /\ \A i \in DOMAIN ds : \A j \in DOMAIN ds[i].rows :
           /\ DOMAIN out.rows[RowsBefore(ds, i) + j] = out.columns
           /\ \A c \in out.columns :
                  out.rows[RowsBefore(ds, i) + j][c]
                      = IF c \in ds[i].columns THEN ds[i].rows[j][c] ELSE NA

\* C10: every column of an input table is a column of stack_align's output,
\* and each output row has the values of its own table's columns and null in
\* every column that only other tables have.
C10_SchemaComplete ==
    [][(pc = "read" /\ pc' = "stacked") => SchemaComplete(dfs, stacked')]_vars

\* a stacked table with rows of two waves, each null in the other's own column
C10_Witness ==
    /\ pc = "stacked"
    /\ \E r \in Range(stacked.rows) : r["wave"] = "wave2" /\ r["caseid"] = NA
                                        /\ r["src_age_var"] # NA
    /\ \E r \in Range(stacked.rows) : r["wave"] = "wave3" /\ r["src_age_var"] = NA
                                        /\ r["caseid"] # NA

\* the fraction v is the sum of the two variances of independent shares
IsIndependentSum(v, pf, nf, pm, nm) ==
    /\ v.den # 0
    /\ v.num * (pf.n * pf.n * nf) * (pm.n * pm.n * nm)
           = (pf.s * (pf.n - pf.s) * (pm.n * pm.n * nm)
                  + pm.s * (pm.n - pm.s) * (pf.n * pf.n * nf)) * v.den

WaldInterval(g) ==
    (SourceP(g["cohort_primary"], "Female", g["wave"]).n # 0
         /\ SourceP(g["cohort_primary"], "Male", g["wave"]).n # 0)
    => /\ IsDifference(g["gap"],
                       SourceP(g["cohort_primary"], "Female", g["wave"]),
                       SourceP(g["cohort_primary"], "Male", g["wave"]))
       /\ IsIndependentSum(g["se2"],
                           SourceP(g["cohort_primary"], "Female", g["wave"]),
                           SourceN(g["cohort_primary"], "Female", g["wave"]),
                           SourceP(g["cohort_primary"], "Male", g["wave"]),
                           SourceN(g["cohort_primary"], "Male", g["wave"]))
       /\ g["lo"].base = g["gap"] /\ g["lo"].k = 0 - 196
       /\ g["hi"].base = g["gap"] /\ g["hi"].k = 196

RowsInOrder(ds, out) ==
    /\ Len(out.rows) = Len(Concat([i \in DOMAIN ds |-> ds[i].rows]))
    /\ \A k \in DOMAIN out.rows :
           \A c \in DOMAIN Concat([i \in DOMAIN ds |-> ds[i].rows])[k] :
               out.rows[k][c] = Concat([i \in DOMAIN ds |-> ds[i].rows])[k][c]

\* C11: stack_align's output has as many rows as its inputs together, in the
\* order of the tables and, within a table, in the table's row order: the k-th
\* output row carries the values of the k-th input row.
C11_RowsInOrder ==
    [][(pc = "read" /\ pc' = "stacked") => RowsInOrder(dfs, stacked')]_vars

\* a stacked table of two waves, the first of them with two different rows
C11_Witness ==
    /\ pc = "stacked"
    /\ \E i, j \in DOMAIN stacked.rows :
           /\ i < j
           /\ stacked.rows[i]["wave"] = stacked.rows[j]["wave"]
           /\ stacked.rows[i] # stacked.rows[j]
    /\ \E i, j \in DOMAIN stacked.rows :
           i < j /\ stacked.rows[i]["wave"] # stacked.rows[j]["wave"]

\* C12: stack_align leaves its input tables as they were: after the call the
\* list dfs holds the same tables, with the same columns and values.
C12_InputsUntouched ==
    [][(pc = "read" /\ pc' = "stacked") => dfs' = dfs]_vars

\* the rows of a table with a cohort label are in chronological order of the
\* label within each scope, and the Female row of a cohort precedes its Male row
Chronological(rows, by_wave) ==
    \A i, j \in DOMAIN rows :
        (i < j /\ ScopeOf(rows[i], by_wave) = ScopeOf(rows[j], by_wave)
               /\ rows[i]["cohort_primary"] \notin {NA, "nan"}
               /\ rows[j]["cohort_primary"] \notin {NA, "nan"})
            => CohortSortKeys[rows[i]["cohort_primary"]]
                   <= CohortSortKeys[rows[j]["cohort_primary"]]

FemaleThenMale(rows, by_wave) ==
    \A i, j \in DOMAIN rows :
        (SameCohort(rows[i], rows[j], by_wave)
             /\ rows[i]["sex_label"] = "Female" /\ rows[j]["sex_label"] = "Male")
            => i < j

SortedByGroupKey(res, by_wave) ==
    res.status = "ok" =>
        /\ Chronological(res.primary_all, by_wave)
        /\ Chronological(res.primary_present, by_wave)
        /\ Chronological(res.ever_partnered_gap, by_wave)
        /\ FemaleThenMale(res.primary_all, by_wave)
        /\ FemaleThenMale(res.primary_present, by_wave)

\* C14: the rows of every aggregate table are in chronological order of the
\* cohort as cohort_sort_key defines it (a label with the less-or-equal sign
\* first), not in the order of the label text, and within a cohort the sexes
\* are in one order in every table and script, the order Female, Male that
\* compute_tables emits.
C14_SortedByGroupKey ==
    /\ SortedByGroupKey(pooled, FALSE)
    /\ SortedByGroupKey(bywave, TRUE)
    /\ SortedByGroupKey(tables, FALSE)

\* the analytic table of a wave script is built
WaveNormalized == script \in {"wave1", "wave2", "wave3"} /\ pc \in {"normalized", "done"}

\* the names of the two cohort columns in the analytic table of the script
PrimaryCohortColumn ==
    CASE script = "wave1" -> "birth_cohort_primary"
      [] script = "wave2" -> "cohort_primary"
      [] OTHER -> "primary_cohort"
MacroCohortColumn ==
    CASE script = "wave1" -> "birth_cohort_macro"
      [] script = "wave2" -> "cohort_macro"
      [] OTHER -> "macro_cohort"

\* C15: in every wave's analytic table a respondent with a finite birth year
\* has a primary cohort label: the first and the last bin are open-ended, so
\* no birth year is left without a label because it is extreme.
C15_EveryBirthYearBinned ==
    WaveNormalized =>
        \A r \in Range(analytic.rows) :
            IsNum(r["birth_year"]) => r[PrimaryCohortColumn] \notin {NA, "nan"}

\* C16: in every wave's analytic table a respondent with a null birth year has
\* a null primary cohort and a null macro cohort, a missing value and not a
\* text.
C16_NullBirthYearNullCohort ==
    WaveNormalized =>
        \A r \in Range(analytic.rows) :
            r["birth_year"] = NA => r[PrimaryCohortColumn] = NA /\ r[MacroCohortColumn] = NA

\* ever_partnered of a record as the two indicators determine it
PartneredAsIndicators(r) ==
    /\ r["ever_partnered"] = "1" <=> (r["ever_married"] = "1" \/ r["ever_cohabited"] = "1")
    /\ r["ever_partnered"] = NA <=> (r["ever_married"] = NA /\ r["ever_cohabited"] = NA)
    /\ r["ever_partnered"] \in {"1", "0", NA}

\* C17: in every record of every wave's analytic table ever_partnered is 1 if
\* and only if ever_married or ever_cohabited is 1, null exactly when both are
\* null, and 0 otherwise.
C17_EverPartnered ==
    WaveNormalized => \A r \in Range(analytic.rows) : PartneredAsIndicators(r)

\* a wave 2 table with a record of two unknown indicators, one of an unknown
\* and a 0, and one of an unknown and a 1
C17_Witness ==
    /\ script = "wave2" /\ pc = "normalized"
    /\ \E r \in Range(analytic.rows) :
           r["ever_married"] = NA /\ r["ever_cohabited"] = NA /\ r["ever_partnered"] = NA
    /\ \E r \in Range(analytic.rows) :
           r["ever_married"] = NA /\ r["ever_cohabited"] = "0" /\ r["ever_partnered"] = "0"
    /\ \E r \in Range(analytic.rows) :
           r["ever_married"] = NA /\ r["ever_cohabited"] = "1" /\ r["ever_partnered"] = "1"

\* the frame a wave script normalizes: the raw extract, in wave 3 the main
\* file merged with the roster
RawFrame ==
    IF script = "wave3" /\ merge_key(raw.main.columns) # NA
                        /\ merge_key(raw.roster.columns) # NA
    THEN merge(type_R(raw.main), raw.roster)
    ELSE IF script = "wave3" THEN [raw.main EXCEPT !.columns = @ \cup raw.roster.columns]
    ELSE raw

\* a source cell that is missing or unparsable, or the sentinel of its file
UnknownCell(c, sentinels) == ~ IsNum(c) \/ Val(c) \in sentinels

\* the source signals of the raw row r for marriage, and for cohabitation, are
\* all unknown: M95 (99 = missing) and NUMCOHAB in wave 1, MI41 with MI40 and
\* MI140 with MI42 in wave 2, the marital status and the cohabitation status
\* of the roster in wave 3
MarriageUnknown(r) ==
    CASE script = "wave1" -> UnknownCell(r["M95"], {99})
      [] script = "wave2" ->
             UnknownCell(r["MI41"], COMMON_MISS) /\ UnknownCell(r["MI40"], COMMON_MISS)
      [] OTHER -> UnknownCell(r[Wave3Column(RawFrame.columns, "MS")], {})
CohabitationUnknown(r) ==
    CASE script = "wave1" -> UnknownCell(r["NUMCOHAB"], {})
      [] script = "wave2" ->
             UnknownCell(r["MI140"], COMMON_MISS) /\ UnknownCell(r["MI42"], COMMON_MISS)
      [] OTHER -> coh_col(RawFrame.columns) = NA
                     \/ UnknownCell(r[coh_col(RawFrame.columns)], {})

\* C18: in every wave a respondent whose source signals for marriage are all
\* unknown has a null ever_married, and one whose source signals for
\* cohabitation are all unknown has a null ever_cohabited: an unknown is never
\* made a 0.
C18_UnknownStaysNull ==
    WaveNormalized =>
        \A i \in DOMAIN analytic.rows :
            /\ MarriageUnknown(RawFrame.rows[i]) => analytic.rows[i]["ever_married"] = NA
            /\ CohabitationUnknown(RawFrame.rows[i]) => analytic.rows[i]["ever_cohabited"] = NA

\* the columns a wave script requires of its raw extract
RequiredMissing ==
    CASE script = "wave1" -> Range(Wave1Required) \ raw.columns
      [] script = "wave2" -> Range(Wave2Required) \ raw.columns
      [] script = "wave3" -> missing_cols(RawFrame.columns)
      [] OTHER -> {}

\* C19: when a required column is absent from the raw extract of a wave script
\* the normalization stops with an error that names the missing field and the
\* columns that are present, and no output of the wave is written.
C19_MissingColumnDiagnosed ==
    (script \in {"wave1", "wave2", "wave3"} /\ pc # "start" /\ RequiredMissing # {}) =>
        /\ pc = "error" /\ error.raised
        /\ error.missing # {} /\ error.missing \subseteq RequiredMissing
        /\ error.present = RawFrame.columns
        /\ written = {}

\* the waves whose input file exists, and those whose file does not, in the
\* fixed order of the waves
WavesWith(e) ==
    SelectRows(Waves, LAMBDA w : \E f \in Range(files) : f.wave = w /\ f.exists = e)

WaveIndex(w) == CHOOSE i \in DOMAIN Waves : Waves[i] = w

\* the rows of the sheets of the files that exist
RowsOnFile == SumOver(files, LAMBDA f : Len(f.sheet.rows))

\* C20: in the stacked run every wave whose file does not exist is skipped with
\* a warning and the other waves are read and stacked in the order wave1,
\* wave2, wave3, with all their rows; the run ends in an error with no output
\* workbook written if and only if no input file exists.
C20_MissingWavesSkipped ==
    (script = "stacked" /\ pc # "start") =>
        /\ warned = WavesWith(FALSE)
        /\ (pc = "aborted") <=> (WavesWith(TRUE) = <<>>)
        /\ pc = "aborted" => (error.raised /\ written = {})
        /\ pc # "aborted" =>
               /\ ~ error.raised
               /\ Len(dfs) = Len(WavesWith(TRUE))
               /\ \A i \in DOMAIN dfs : \A r \in Range(dfs[i].rows) :
                      r["wave"] = WavesWith(TRUE)[i]
        /\ pc \in {"stacked", "computed", "plotted"} =>
               /\ Len(stacked.rows) = RowsOnFile
               /\ \A i, j \in DOMAIN stacked.rows :
                      i < j => WaveIndex(stacked.rows[i]["wave"])
                                   <= WaveIndex(stacked.rows[j]["wave"])

\* a run without the file of wave 2 that stacked rows of wave 1 and of wave 3
C20_Witness ==
    /\ pc = "stacked"
    /\ warned = <<"wave2">>
    /\ \E r \in Range(stacked.rows) : r["wave"] = "wave1"
    /\ \E r \in Range(stacked.rows) : r["wave"] = "wave3"

\* the primary cohort label the wave script wrote on the row r of the stacked
\* dataset, under the name of the wave's sheet, or NA
WaveGivenCohort(r) ==
    IF "birth_cohort_primary" \in DOMAIN r /\ r["birth_cohort_primary"] # NA
    THEN r["birth_cohort_primary"]
    ELSE IF "primary_cohort" \in DOMAIN r THEN r["primary_cohort"]
    ELSE NA

\* C21: in the stacked dataset every row to which its wave gave a primary
\* cohort label has that label in the column cohort_primary, the wave's own
\* column name being renamed, for the rows of wave 1, wave 2 and wave 3.
C21_CohortRenamed ==
    (script = "stacked" /\ pc \in {"stacked", "computed", "plotted"}) =>
        \A r \in Range(stacked.rows) :
            WaveGivenCohort(r) # NA =>
                "cohort_primary" \in DOMAIN r /\ r["cohort_primary"] = WaveGivenCohort(r)

\* the main respondents of the raw extract of the wave script, and the column
\* of the analytic table that holds the case identifier (wave 2 keeps none)
RespondentsRead ==
    IF script = "wave3" THEN Len(type_R(raw.main).rows) ELSE Len(raw.rows)
CaseColumn == IF script = "wave1" THEN "MCASEID" ELSE "caseid"

\* C22: the analytic table of a wave has one row for each main respondent of
\* the raw extract: as many rows as respondents read, and no case identifier
\* twice, also in wave 3, whatever rows the household roster holds.
C22_OneRowPerRespondent ==
    WaveNormalized =>
        /\ Len(analytic.rows) = RespondentsRead
        /\ CaseColumn \in analytic.columns =>
               \A i, j \in DOMAIN analytic.rows :
                   analytic.rows[i][CaseColumn] = analytic.rows[j][CaseColumn] => i = j

\* the macro cohort of the integer birth year y
MacroLabel(y) ==
    IF y <= 1949 THEN "<=1949"
    ELSE IF y <= 1959 THEN "1950-59"
    ELSE IF y <= 1969 THEN "1960-69"
    ELSE IF y <= 1979 THEN "1970-79"
    ELSE ">=1980"

\* C23: for every integer birth year the macro binners of wave 1, wave 2 and
\* wave 3 return the same label: <=1949 up to 1949, then the decades 1950-59,
\* 1960-69 and 1970-79, and >=1980 from 1980 on.
C23_MacroBinnersAgree ==
    (script = "macro" /\ pc = "done") =>
        \A w \in {"wave1", "wave2", "wave3"} : analytic.rows[1][w] = MacroLabel(Val(raw))

\* the binners applied to a last year of a bin and to a first one
C23_Witness ==
    /\ script = "macro" /\ pc = "done"
    /\ raw \in {"1949", "1980"}
    /\ analytic.rows[1]["wave3"] \in {"<=1949", ">=1980"}

\* a label that starts with the less-or-equal sign, with the greater-or-equal
\* sign, and the first year of any other label
StartsLe(s) == \E n \in NumRange : s = "<=" \o Numerals[n]
StartsGe(s) == \E n \in NumRange : s = ">=" \o Numerals[n]
FirstYear(s) == CHOOSE a \in NumRange : \E b \in NumRange : s = Numerals[a] \o "-" \o Numerals[b]

\* memo tables of the three over the cohort labels
LabelClass ==
    [s \in CohortVocabulary |->
        IF StartsLe(s) THEN "le" ELSE IF StartsGe(s) THEN "ge" ELSE "year"]
FirstYears ==
    [s \in {x \in CohortVocabulary : LabelClass[x] = "year"} |-> FirstYear(s)]

\* C24: sorting a list of cohort labels by cohort_sort_key puts every label
\* that starts with the less-or-equal sign before all others, every label that
\* starts with the greater-or-equal sign after all others, and the other
\* labels in ascending order of their first year.
C24_SortedChronologically ==
    (script = "sorted" /\ pc = "done") =>
        \A i, j \in DOMAIN analytic.rows :
            i < j =>
                /\ LabelClass[analytic.rows[j]] = "le" => LabelClass[analytic.rows[i]] = "le"
                /\ LabelClass[analytic.rows[i]] = "ge" => LabelClass[analytic.rows[j]] = "ge"
                /\ (LabelClass[analytic.rows[i]] = "year" /\ LabelClass[analytic.rows[j]] = "year")
                       => FirstYears[analytic.rows[i]] <= FirstYears[analytic.rows[j]]

\* C25: in every record of every wave's analytic table remarried_2plus is 1
\* exactly when num_marriages is a number of two or more, wave 3 with its
\* reconstructed num_marriages included.
C25_RemarriedIffTwoMarriages ==
    WaveNormalized =>
        \A i \in DOMAIN analytic.rows :
            (analytic.rows[i]["remarried_2plus"] = "1")
                <=> (/\ IsNum(analytic.rows[i]["num_marriages"])
                     /\ Val(analytic.rows[i]["num_marriages"]) >= 2)

\* a wave 3 respondent married before, given num_marriages = 2, beside one
\* married once
C25_Witness ==
    /\ script = "wave3" /\ pc = "normalized"
    /\ \E i, j \in DOMAIN analytic.rows :
           /\ analytic.rows[i]["remarried_2plus"] = "1"
           /\ analytic.rows[i]["num_marriages"] = "2"
           /\ analytic.rows[j]["remarried_2plus"] = "0"
           /\ analytic.rows[j]["num_marriages"] = "1"

\* the label the fixed mapping gives a sex code: null for every code but 1 and 2
SexLabelOfCode(c) == IF c = "1" THEN "Male" ELSE IF c = "2" THEN "Female" ELSE NA

\* the sheets of the files that exist, in the order of dfs
SheetsRead == MapRows(SelectRows(files, LAMBDA f : f.exists), LAMBDA f : f.sheet)

\* C26: in every wave's analytic table sex_label is Male for the sex code 1,
\* Female for 2 and the missing value, never a text, for any other or missing
\* code; read_analytic leaves the sex_label column of a sheet as it is.
C26_SexLabelMaleFemaleOrNull ==
    /\ WaveNormalized =>
           \A i \in DOMAIN analytic.rows :
               analytic.rows[i]["sex_label"] = SexLabelOfCode(analytic.rows[i]["sex"])
    /\ (script = "stacked" /\ pc = "read") =>
           \A d \in DOMAIN dfs :
               "sex_label" \in SheetsRead[d].columns =>
                   \A i \in DOMAIN dfs[d].rows :
                       dfs[d].rows[i]["sex_label"] = SheetsRead[d].rows[i]["sex_label"]

\* C27: in every wave's analytic table age_le_35 is 1 for an age of at most
\* 35, 0 for an age above 35 and null for a null age; a respondent of unknown
\* age never has age_le_35 = 0.
C27_UnknownAgeNullIndicator ==
    WaveNormalized =>
        \A i \in DOMAIN analytic.rows :
            analytic.rows[i]["age_le_35"]
                = IF ~ IsNum(analytic.rows[i]["age"]) THEN NA
                  ELSE IF Val(analytic.rows[i]["age"]) <= 35 THEN "1" ELSE "0"

\* a column the wave script needs is absent from its files: a required column,
\* or in wave 3 the case key of the main file or of the roster
ColumnAbsent ==
    \/ RequiredMissing # {}
    \/ script = "wave3" /\ (\/ merge_key(raw.main.columns) = NA
                            \/ merge_key(raw.roster.columns) = NA)

\* the extract of wave 2 holds no respondent of a known age of at most 35, so
\* that there is no birth year to build the primary bins from
NoneInScope ==
    /\ script = "wave2"
    /\ \A i \in DOMAIN raw.rows :
           UnknownCell(raw.rows[i]["MA8"], COMMON_MISS) \/ Val(raw.rows[i]["MA8"]) > 35

\* C28: recoding a raw value gives null for an unparsable value and for a
\* sentinel code and the value itself otherwise, so recoding twice gives what
\* recoding once gives; where the files hold the columns the script needs and
\* a respondent in scope, no value of a respondent, malformed or missing,
\* makes the normalization of a wave stop with an error.
C28_RecodingNeverAborts ==
    /\ (script = "wave2" /\ ~ ColumnAbsent) =>
           \A i \in DOMAIN raw.rows : \A c \in raw.columns :
               /\ recode_missing_numeric(raw.rows[i][c])
                      = IF UnknownCell(raw.rows[i][c], COMMON_MISS) THEN NA ELSE raw.rows[i][c]
               /\ recode_missing_numeric(recode_missing_numeric(raw.rows[i][c]))
                      = recode_missing_numeric(raw.rows[i][c])
    /\ (script \in {"wave1", "wave2", "wave3"} /\ error.raised)
           => (ColumnAbsent \/ NoneInScope)

\* C29: both calls of compute_tables, pooled and by wave, return for every
\* stacked dataset and threshold; with no cohort retained primary_present and
\* the gap table are empty.
C29_ComputeTablesReturns ==
    (script = "stacked" /\ pc \in {"computed", "plotted"}) =>
        \A t \in {pooled, bywave} :
            /\ t.status = "ok"
            /\ t.primary_present = <<>> => t.ever_partnered_gap = <<>>

\* the rows of the by-wave primary_all for the cohort and sex of the row q
ByWaveRowsOf(q) ==
    SelectRows(bywave.primary_all,
               LAMBDA r : /\ r["cohort_primary"] = q["cohort_primary"]
                          /\ r["sex_label"] = q["sex_label"])

\* C30: when both calls of compute_tables return, the pooled N of every
\* (cohort, sex) is the sum over the waves of its by-wave N, and so is the
\* pooled number of respondents with ever_partnered = 1; every by-wave group
\* belongs to a pooled group, and the stacked dataset is after the two calls
\* what stack_align built of the tables read.
C30_PooledIsSumOfWaves ==
    (script = "stacked" /\ pc \in {"computed", "plotted"}
         /\ pooled.status = "ok" /\ bywave.status = "ok") =>
        /\ \A i \in DOMAIN pooled.primary_all :
               /\ pooled.primary_all[i]["N_age_le_35"]
                      = SumOver(ByWaveRowsOf(pooled.primary_all[i]),
                                LAMBDA r : r["N_age_le_35"])
               /\ pooled.primary_all[i]["p_ever_partnered"].s
                      = SumOver(ByWaveRowsOf(pooled.primary_all[i]),
                                LAMBDA r : r["p_ever_partnered"].s)
        /\ \A j \in DOMAIN bywave.primary_all :
               \E i \in DOMAIN pooled.primary_all :
                   /\ pooled.primary_all[i]["cohort_primary"]
                          = bywave.primary_all[j]["cohort_primary"]
                   /\ pooled.primary_all[i]["sex_label"] = bywave.primary_all[j]["sex_label"]
        /\ stacked = stack_align(dfs)

\* a pooled group of respondents of two waves, some of them ever partnered
C30_Witness ==
    /\ script = "stacked" /\ pc = "computed"
    /\ pooled.status = "ok" /\ bywave.status = "ok"
    /\ \E i \in DOMAIN pooled.primary_all :
           /\ Len(ByWaveRowsOf(pooled.primary_all[i])) >= 2
           /\ pooled.primary_all[i]["p_ever_partnered"].s >= 1

====
